---- MODULE Spec2Model ----
(***************************************************************************)
(* State-machine model of the scheduling and progression core of           *)
(* EnglishMaster Pro: the SM-2 card scheduler (src/js/ai.js, object SM2)   *)
(* and the grammar topic acquisition state machine (src/unnamed/part_006,  *)
(* class Grammar), and the adaptive placement test                         *)
(* (src/js/placementTest.js, class PlacementTest), and the vocabulary      *)
(* review session (src/js/vocabulary.js, class Vocabulary).                *)
(*                                                                         *)
(* Numbers that are fractions in the JavaScript source are kept as         *)
(* integers in hundredths: easeFactor 2.5 is 250, a practice score 0.7 is  *)
(* 70. Math.round(x) is floor(x + 1/2), computed on exact rationals.       *)
(* Timestamps (Date.now()) are kept as what the code derives from them:    *)
(* lastReview / completedAt / startedAt as null or set, nextReview as the  *)
(* scheduled delay in minutes after the answer.                            *)
(***************************************************************************)
EXTENDS Integers, Sequences, FiniteSets, TLC

VARIABLES
    card,           \* the card record SM2.createCard returned, as mutated
    lastCall,       \* input of the last SM2.processAnswer call and the status it found
    goodRun,        \* whether the learner has taken to answering GOOD on every review
    goodAnswers,    \* number of answers given since, modulo 2
    progress,       \* Grammar.progress: topic id -> progress record (started topics)
    currentTopic,   \* Grammar.currentTopic
    currentPhase,   \* Grammar.currentPhase
    storedGrammar,  \* localStorage entry em_<user>_grammar
    lastOp,         \* the last Grammar operation and the phase last derived
    storageFull,    \* whether localStorage.setItem throws (quota exceeded)
    questionBanks,  \* PlacementTest.questionBanks: level -> section -> number of questions
    isLoaded,       \* PlacementTest.isLoaded
    testSession,    \* PlacementTest.testSession
    storedPlacement,\* profile.placementTestResults in localStorage entry em_<user>_profile
    learner,        \* who sits the test: any caller, or one answering by ability
    ptCalls,        \* number of PlacementTest calls made so far
    lastResult,     \* the last PlacementTest call and what it returned
    levelChangedAt, \* answers recorded when currentLevel last changed (0: never)
    cards,          \* Vocabulary.cards: word -> the card's SM-2 records
    currentSession, \* Vocabulary.currentSession
    storedVocabulary, \* localStorage entry em_<user>_vocabulary
    vocabCalls,     \* number of Vocabulary calls made so far
    lastAnswer,     \* the last Vocabulary.processAnswer call and how it ended
    pendingAnswers, \* the processAnswer calls suspended in `await Database.saveVocabularyCard`
    gradings,       \* per queue position of the session: times SM2.processAnswer was applied
    scoring,        \* the last call of a scoring function of PlacementTest: arguments, result
    sessionPlan,    \* the last Vocabulary.startSession on a drawn vocabulary: arguments, queue
    storedSessions, \* localStorage entry em_<user>_sessions
    clock,          \* Date.now(), in days since the program started
    timeSteps,      \* number of times the clock has moved
    logCalls        \* number of Database.logSession calls made so far

sm2vars == <<card, lastCall, goodRun, goodAnswers>>
grammarvars == <<progress, currentTopic, currentPhase, storedGrammar, lastOp>>
placementvars == <<questionBanks, isLoaded, testSession, storedPlacement, learner,
                   ptCalls, lastResult, levelChangedAt>>
vars == <<card, lastCall, goodRun, goodAnswers, progress, currentTopic, currentPhase, storedGrammar, lastOp,
          storageFull, questionBanks, isLoaded, testSession, storedPlacement, learner,
          ptCalls, lastResult, levelChangedAt, cards, currentSession,
          storedVocabulary, vocabCalls,
          lastAnswer, pendingAnswers, gradings, scoring, sessionPlan, storedSessions, clock, timeSteps, logCalls>>
purevars == <<scoring, sessionPlan>>
logvars == <<storedSessions, clock, timeSteps, logCalls>>
vocabvars == <<cards, currentSession, storedVocabulary, vocabCalls, lastAnswer,
               pendingAnswers, gradings>>

Null == "null"

(***************************************************************************)
(* Bounds of the model (not program constants).                            *)
(***************************************************************************)
MaxRepetitions == 6     \* successful review answers explored per card
MaxLapses == 4          \* review-phase AGAIN answers explored per card
MaxAttempts == 2        \* practice submissions explored per topic
MaxSubmissions == 1     \* produce submissions explored per topic
MaxFlood == 6           \* input_flood texts read explored per topic
MaxCalls == 6           \* PlacementTest calls explored in an unconstrained run
MaxAnswers == 9         \* answers of the protocol-following learner who answers anyhow
MaxChoice == 2          \* unused questions Math.random picks among (first ones in bank order)
MaxLogCalls == 102      \* Database.logSession calls explored
MaxTimeSteps == 1       \* times the clock moves between logSession calls
MaxCards == 3           \* cards of a drawn vocabulary
MaxLimit == 3           \* limit argument of startSession on a drawn vocabulary
MaxPending == 2
MaxVocabCalls == 4      \* Vocabulary calls explored
SmallBank == 1          \* questions per level and section in a small question bank
LargeBank == 13         \* questions per level and section in a large question bank

(***************************************************************************)
(* SM2: constants (src/js/ai.js 453-470).                                  *)
(***************************************************************************)
learningSteps == <<1, 10>>
graduatingInterval == 1
easyInterval == 4
minEaseFactor == 130
maxEaseFactor == 300
defaultEaseFactor == 250
AGAIN == 0
HARD == 1
GOOD == 2
EASY == 3
Qualities == {AGAIN, HARD, GOOD, EASY}
LearnedInterval == 21
MinutesPerDay == 1440

Max(a, b) == IF a >= b THEN a ELSE b
Min(a, b) == IF a <= b THEN a ELSE b

\* Math.round(n / d) for n >= 0, d > 0: halves round up.
RoundDiv(n, d) == (2 * n + d) \div (2 * d)

\* SM2.createCard
createCard ==
    [ status |-> "new",
      easeFactor |-> defaultEaseFactor,
      interval |-> 0,
      repetitions |-> 0,
      lapses |-> 0,
      learningStep |-> 0,
      nextReview |-> 0,
      lastReview |-> Null ]

\* this.learningSteps[card.learningStep] || this.learningSteps[0]
StepMinutes(step) ==
    IF step + 1 \in DOMAIN learningSteps
    THEN learningSteps[step + 1]
    ELSE learningSteps[1]

\* The final status normalisation of processLearning (lines 536-538).
NormaliseStatus(c) ==
    IF c.status # "new"
    THEN [c EXCEPT !.status = IF c.status = "review" THEN "review" ELSE "learning"]
    ELSE c

\* card.learningStep++ skipping a step.
StepAfterGood_skipping(step) == step + 2

\* card.learningStep++
StepAfterGood(step) == step + 1

\* Variant of processLearning with the two graduation intervals exchanged.
processLearning_swapped(c, quality) ==
    NormaliseStatus(
        CASE quality = AGAIN ->
                [c EXCEPT !.learningStep = 0, !.nextReview = learningSteps[1]]
          [] quality = HARD ->
                [c EXCEPT !.nextReview = StepMinutes(c.learningStep)]
          [] quality = GOOD ->
                IF StepAfterGood(c.learningStep) >= Len(learningSteps)
                THEN [c EXCEPT !.learningStep = StepAfterGood(c.learningStep),
                               !.status = "review",
                               !.interval = easyInterval,
                               !.nextReview = easyInterval * MinutesPerDay]
                ELSE [c EXCEPT !.learningStep = StepAfterGood(c.learningStep),
                               !.nextReview = learningSteps[c.learningStep + 2]]
          [] quality = EASY ->
                [c EXCEPT !.status = "review",
                          !.interval = graduatingInterval,
                          !.easeFactor = c.easeFactor + 15,
                          !.nextReview = graduatingInterval * MinutesPerDay]
          [] OTHER -> c)

\* SM2.processLearning
processLearning(c, quality) ==
    NormaliseStatus(
        CASE quality = AGAIN ->
                [c EXCEPT !.learningStep = 0, !.nextReview = learningSteps[1]]
          [] quality = HARD ->
                [c EXCEPT !.nextReview = StepMinutes(c.learningStep)]
          [] quality = GOOD ->
                IF StepAfterGood(c.learningStep) >= Len(learningSteps)
                THEN [c EXCEPT !.learningStep = StepAfterGood(c.learningStep),
                               !.status = "review",
                               !.interval = graduatingInterval,
                               !.nextReview = graduatingInterval * MinutesPerDay]
                ELSE [c EXCEPT !.learningStep = StepAfterGood(c.learningStep),
                               !.nextReview = learningSteps[c.learningStep + 2]]
          [] quality = EASY ->
                [c EXCEPT !.status = "review",
                          !.interval = easyInterval,
                          !.easeFactor = c.easeFactor + 15,
                          !.nextReview = easyInterval * MinutesPerDay]
          [] OTHER -> c)

\* The ease factor formula without the conversion of quality to the 2-5 scale.
EaseDelta_unconverted(quality) ==
    LET q == quality
    IN  10 - (5 - q) * (8 + (5 - q) * 2)

\* 0.1 - (5 - q) * (0.08 + (5 - q) * 0.02) with q = quality + 2, in hundredths.
EaseDelta(quality) ==
    LET q == quality + 2
    IN  10 - (5 - q) * (8 + (5 - q) * 2)

\* Math.max(minEaseFactor, Math.min(maxEaseFactor, ef))
ClampEase(ef) == Max(minEaseFactor, Min(maxEaseFactor, ef))

\* The interval of a successful review (lines 564-570), ef being the updated
\* ease factor.
NewInterval(interval, ef, quality) ==
    CASE quality = HARD -> RoundDiv(interval * 12, 10)
      [] quality = GOOD -> RoundDiv(interval * ef, 100)
      [] quality = EASY -> RoundDiv(interval * ef * 13, 1000)
      [] OTHER -> interval

\* Variant of MarkLearned with the threshold written 12 instead of 21.
MarkLearned_digitsSwapped(c) ==
    IF c.interval >= 12 THEN [c EXCEPT !.status = "learned"] ELSE c

\* if (card.interval >= 21) card.status = 'learned'
MarkLearned(c) ==
    IF c.interval >= LearnedInterval THEN [c EXCEPT !.status = "learned"] ELSE c

\* The successful-review branch of processReview (lines 555-577).
SuccessfulReview(c, quality, ef) ==
    LET iv == NewInterval(c.interval, ef, quality)
    IN  MarkLearned([c EXCEPT !.repetitions = c.repetitions + 1,
                              !.easeFactor = ef,
                              !.interval = iv,
                              !.nextReview = iv * MinutesPerDay])

\* Variant of Lapse that also resets repetitions.
Lapse_resettingRepetitions(c) ==
    [c EXCEPT !.lapses = c.lapses + 1,
              !.status = "learning",
              !.learningStep = 0,
              !.repetitions = 0,
              !.easeFactor = Max(c.easeFactor - 20, minEaseFactor),
              !.nextReview = learningSteps[1]]

\* Variant of Lapse taking 0.1 instead of 0.2 off the ease factor.
Lapse_smallPenalty(c) ==
    [c EXCEPT !.lapses = c.lapses + 1,
              !.status = "learning",
              !.learningStep = 0,
              !.easeFactor = Max(c.easeFactor - 10, minEaseFactor),
              !.nextReview = learningSteps[1]]

\* The lapse branch of processReview (lines 547-553).
Lapse(c) ==
    [c EXCEPT !.lapses = c.lapses + 1,
              !.status = "learning",
              !.learningStep = 0,
              !.easeFactor = Max(c.easeFactor - 20, minEaseFactor),
              !.nextReview = learningSteps[1]]

\* SM2.processReview
processReview(c, quality) ==
    IF quality = AGAIN
    THEN Lapse(c)
    ELSE SuccessfulReview(c, quality, ClampEase(c.easeFactor + EaseDelta(quality)))

\* SM2.processAnswer
processAnswer(c, quality) ==
    LET stamped == [c EXCEPT !.lastReview = "set"]
    IN  IF c.status = "new" \/ c.status = "learning"
        THEN processLearning(stamped, quality)
        ELSE processReview(stamped, quality)

\* Whether the answer stays within the explored number of reviews and lapses.
WithinCardBounds(c, quality) ==
    \/ c.status \in {"new", "learning"}
    \/ quality = AGAIN /\ c.lapses < MaxLapses
    \/ quality # AGAIN /\ c.repetitions < MaxRepetitions

\* One graded answer on the card.
ProcessAnswer ==
    \E quality \in Qualities :
        /\ ~goodRun
        /\ WithinCardBounds(card, quality)
        /\ card' = processAnswer(card, quality)
        /\ lastCall' = [called |-> TRUE, quality |-> quality,
                        statusBefore |-> card.status,
                        answeredBefore |-> card.lastReview # Null]
        /\ UNCHANGED <<goodRun, goodAnswers, grammarvars, storageFull, placementvars, vocabvars, purevars, logvars>>

\* From now on the learner answers GOOD on every review.
StartGoodRun ==
    /\ ~goodRun
    /\ goodRun' = TRUE
    /\ UNCHANGED <<card, lastCall, goodAnswers, grammarvars, storageFull, placementvars, vocabvars,
                   purevars, logvars>>

\* The reviews counted no further than MaxRepetitions (nothing reads the count).
CountedToBound(c) == [c EXCEPT !.repetitions = Min(@, MaxRepetitions)]

\* One answer GOOD of a learner who answers GOOD on every review, followed
\* until the card is learned.
AnswerGood ==
    /\ goodRun
    /\ card.status # "learned"
    /\ card' = CountedToBound(processAnswer(card, GOOD))
    /\ goodAnswers' = (goodAnswers + 1) % 2
    /\ lastCall' = [called |-> TRUE, quality |-> GOOD,
                    statusBefore |-> card.status,
                    answeredBefore |-> card.lastReview # Null]
    /\ UNCHANGED <<goodRun, grammarvars, storageFull, placementvars, vocabvars,
                   purevars, logvars>>

SM2Init ==
    /\ goodRun = FALSE
    /\ goodAnswers = 0
    /\ card = createCard
    /\ lastCall = [called |-> FALSE, quality |-> AGAIN, statusBefore |-> "new",
                   answeredBefore |-> FALSE]

(***************************************************************************)
(* Grammar: the topic acquisition state machine (src/unnamed/part_006).    *)
(***************************************************************************)
Topics == {"a1_to_be"}

\* Grammar.PHASE_ORDER
PHASE_ORDER ==
    <<"discover", "understand", "notice", "practice", "produce", "input_flood", "review">>
PhaseNames == {PHASE_ORDER[i] : i \in DOMAIN PHASE_ORDER}
\* A phase argument that is none of Grammar.PHASES.
OtherPhase == "summary"
PhaseArgs == PhaseNames \cup {OtherPhase}

PassScore == 70         \* data.score >= 0.7
AcquiredAccuracy == 80  \* review.accuracy >= 0.8
FloodTarget == 5        \* input_flood < 5 / >= 5

\* A field the caller left out of `data` (JavaScript undefined).
Undefined == -1
Scores == {Undefined, 69, 70, 100}
Accuracies == {Undefined, 0, 79, 80}
Texts == {"I am a student."}
\* data = {}: every field left out.
NoData == [score |-> Undefined, accuracy |-> Undefined, text |-> Null]
\* The `data` arguments explored with a phase: the fields that phase's case
\* reads (no case reads another's), each given or left out.
DataArgs(phase) ==
    CASE phase = "practice" -> {[NoData EXCEPT !.score = s] : s \in Scores}
      [] phase = "review" -> {[NoData EXCEPT !.accuracy = a] : a \in Accuracies}
      [] phase = "produce" -> {[NoData EXCEPT !.text = t] : t \in Texts}
      [] OTHER -> {NoData}

\* x || 0 for a number or undefined: undefined and 0 are falsy.
OrZero(x) == IF x = Undefined THEN 0 ELSE x

\* The record Grammar.getTopicProgress builds for a topic without progress.
getTopicProgress ==
    [ phases |->
        [ discover |-> FALSE,
          understand |-> FALSE,
          notice |-> FALSE,
          practice |-> [completed |-> FALSE, score |-> 0, attempts |-> 0],
          produce |-> [completed |-> FALSE, submissions |-> << >>],
          input_flood |-> 0,
          review |-> [accuracy |-> 0, lastReview |-> Null] ],
      acquired |-> FALSE,
      startedAt |-> Null,
      completedAt |-> Null ]

\* The input-flood test of determineCurrentPhase taken as `<= 5`.
FloodPending_inclusive(p) == p.phases.input_flood <= FloodTarget

\* progress.phases.input_flood < 5
FloodPending(p) == p.phases.input_flood < FloodTarget

\* Grammar.determineCurrentPhase
determineCurrentPhase(p) ==
    IF ~p.phases.discover THEN "discover"
    ELSE IF ~p.phases.understand THEN "understand"
    ELSE IF ~p.phases.notice THEN "notice"
    ELSE IF ~p.phases.practice.completed THEN "practice"
    ELSE IF ~p.phases.produce.completed THEN "produce"
    ELSE IF FloodPending(p) THEN "input_flood"
    ELSE "review"

\* Grammar.isTopicCompleted
isTopicCompleted(p) ==
    /\ p.phases.discover
    /\ p.phases.understand
    /\ p.phases.notice
    /\ p.phases.practice.completed
    /\ p.phases.produce.completed
    /\ p.phases.input_flood >= FloodTarget

\* practice.completed kept once a submission has passed.
PracticeCompleted_sticky(practice, data) ==
    \/ practice.completed
    \/ data.score # Undefined /\ data.score >= PassScore

\* completed: data.score >= 0.7 (false for a missing score: undefined >= 0.7).
PracticeCompleted(practice, data) ==
    data.score # Undefined /\ data.score >= PassScore

\* The switch of completePhase (lines 348-385): the phase's mutation.
ApplyPhase(p, phase, data) ==
    CASE phase \in {"discover", "understand", "notice"} ->
            [p EXCEPT !.phases[phase] = TRUE]
      [] phase = "practice" ->
            [p EXCEPT !.phases.practice =
                [ completed |-> PracticeCompleted(p.phases.practice, data),
                  score |-> OrZero(data.score),
                  attempts |-> p.phases.practice.attempts + 1 ]]
      [] phase = "produce" ->
            [p EXCEPT !.phases.produce =
                [ completed |-> TRUE,
                  submissions |-> Append(p.phases.produce.submissions, data.text) ]]
      [] phase = "input_flood" ->
            [p EXCEPT !.phases.input_flood = p.phases.input_flood + 1]
      [] phase = "review" ->
            [p EXCEPT !.phases.review =
                [ accuracy |-> IF OrZero(data.accuracy) # 0
                               THEN data.accuracy
                               ELSE p.phases.review.accuracy,
                  lastReview |-> "set" ]]
      [] OTHER -> p

\* The completion check of completePhase (lines 387-391).
CheckCompleted(p) ==
    IF isTopicCompleted(p)
    THEN [p EXCEPT !.completedAt = "set",
                   !.acquired = p.phases.review.accuracy >= AcquiredAccuracy]
    ELSE p

\* Database.setLocalData: the write is dropped when localStorage.setItem throws.
setLocalData(old, value) == IF storageFull THEN old ELSE value

\* Whether the call stays within the explored counts of submissions.
WithinTopicBounds(p, phase) ==
    /\ phase = "practice" => p.phases.practice.attempts < MaxAttempts
    /\ phase = "produce" => Len(p.phases.produce.submissions) < MaxSubmissions
    /\ phase = "input_flood" => p.phases.input_flood < MaxFlood

\* Variant of startTopic without the `if (!this.progress[topicId])` guard: the
\* record is initialised on every start.
StartTopic_reinitialised ==
    \E topicId \in Topics :
        /\ currentTopic' = topicId
        /\ progress' = [t \in DOMAIN progress \cup {topicId} |->
                          IF t = topicId
                          THEN [getTopicProgress EXCEPT !.startedAt = "set"]
                          ELSE progress[t]]
        /\ storedGrammar' = setLocalData(storedGrammar, progress')
        /\ currentPhase' = determineCurrentPhase(progress'[topicId])
        /\ lastOp' = [op |-> "startTopic", topic |-> topicId, derived |-> currentPhase',
                       success |-> "true"]
        /\ UNCHANGED <<sm2vars, storageFull, placementvars, vocabvars, purevars, logvars>>

\* Grammar.startTopic (loadTopicData always yields topic data: the file's or
\* the default structure).
StartTopic ==
    \E topicId \in Topics :
        /\ currentTopic' = topicId
        /\ IF topicId \notin DOMAIN progress
           THEN /\ progress' = [t \in DOMAIN progress \cup {topicId} |->
                                  IF t = topicId
                                  THEN [getTopicProgress EXCEPT !.startedAt = "set"]
                                  ELSE progress[t]]
                /\ storedGrammar' = setLocalData(storedGrammar, progress')
           ELSE UNCHANGED <<progress, storedGrammar>>
        /\ currentPhase' = determineCurrentPhase(progress'[topicId])
        /\ lastOp' = [op |-> "startTopic", topic |-> topicId, derived |-> currentPhase',
                       success |-> "true"]
        /\ UNCHANGED <<sm2vars, storageFull, placementvars, vocabvars, purevars, logvars>>

\* Grammar.goToPhase
GoToPhase ==
    \E phase \in PhaseArgs :
        /\ IF phase \notin PhaseNames
           THEN UNCHANGED currentPhase
           ELSE currentPhase' = phase
        /\ lastOp' = [lastOp EXCEPT !.op = "goToPhase"]
        /\ UNCHANGED <<progress, currentTopic, storedGrammar>>
        /\ UNCHANGED <<sm2vars, storageFull, placementvars, vocabvars, purevars, logvars>>

\* The success flag of completePhase's result, true also without a topic.
ResultSuccess_always(topic) == "true"

\* The success flag of completePhase's result: {success: false} when no topic
\* is current (line 344), success: true otherwise (line 397).
ResultSuccess(topic) == IF topic = Null THEN "false" ELSE "true"

\* Grammar.completePhase(phase, data)
CompletePhaseWith(phase, data) ==
        /\ IF currentTopic = Null
           THEN /\ lastOp' = [lastOp EXCEPT !.op = "completePhase",
                                            !.success = ResultSuccess(currentTopic)]
                /\ UNCHANGED <<progress, currentPhase, storedGrammar>>
           ELSE /\ WithinTopicBounds(progress[currentTopic], phase)
                /\ progress' = [progress EXCEPT ![currentTopic] =
                                   CheckCompleted(ApplyPhase(@, phase, data))]
                /\ storedGrammar' = setLocalData(storedGrammar, progress')
                /\ currentPhase' = determineCurrentPhase(progress'[currentTopic])
                /\ lastOp' = [op |-> "completePhase", topic |-> currentTopic,
                               derived |-> currentPhase',
                               success |-> ResultSuccess(currentTopic)]
        /\ UNCHANGED <<currentTopic, sm2vars, storageFull, placementvars, vocabvars, purevars, logvars>>

\* Grammar.completePhase called with any phase and data.
CompletePhase ==
    \E phase \in PhaseArgs : \E data \in DataArgs(phase) : CompletePhaseWith(phase, data)

EmptyProgress == [t \in {} |-> getTopicProgress]

\* No Grammar operation called yet.
NoOp == [op |-> Null, topic |-> Null, derived |-> Null, success |-> "none"]

GrammarInit ==
    /\ progress = EmptyProgress
    /\ currentTopic = Null
    /\ currentPhase = Null
    /\ storedGrammar = EmptyProgress
    /\ lastOp = NoOp

\* The records Grammar.init() may load from an earlier session: a topic just
\* started, or with its first phase completed.
StartedRecord == [getTopicProgress EXCEPT !.startedAt = "set"]
StoredProgress ==
    {EmptyProgress} \cup
    {[t \in Topics |-> r] : r \in {StartedRecord, ApplyPhase(StartedRecord, "discover", NoData)}}

\* The state after construction and init() in any session, the first one or a
\* later one: progress is what localStorage holds, no topic is current.
GrammarResumedInit ==
    /\ progress \in StoredProgress
    /\ storedGrammar = progress
    /\ currentTopic = Null
    /\ currentPhase = Null
    /\ lastOp = NoOp

(***************************************************************************)
(* PlacementTest: the adaptive placement test (src/js/placementTest.js).   *)
(* A question is [level, section, id]; its qId `${level}_${section}_${id}` *)
(* is the tuple <<level, section, id>> (ids are unique within a section).  *)
(* Whether answerIndex === question.correct is the input isCorrect.        *)
(***************************************************************************)
LEVELS == <<"A1", "A2", "B1", "B2", "C1">>
LevelNames == {LEVELS[i] : i \in DOMAIN LEVELS}
LevelIndex(level) == CHOOSE i \in DOMAIN LEVELS : LEVELS[i] = level
\* PlacementTest.CONFIG
minQuestions == 50
maxQuestions == 70
sections == <<"grammar", "vocabulary", "reading", "listening_simulation">>
SectionNames == {sections[i] : i \in DOMAIN sections}
adaptiveThreshold == 70
moveDownThreshold == 40
stabilityWindow == 10
AdaptWindow == 5            \* answers.slice(-5)
MinLevelAnswers == 3        \* currentLevelAnswers.length < 3
SectionLevelAccuracy == 60  \* accuracy >= 0.6
SectionLevelAnswers == 2    \* data.total >= 2
StartLevel == "A2"

\* The last n elements of a sequence: seq.slice(-n).
LastN(seq, n) == SubSeq(seq, Max(1, Len(seq) - n + 1), Len(seq))

\* The question banks loadQuestionBanks may end with: no file fetched, or every
\* level's file with n questions in each section.
UniformBanks(n) == [l \in LevelNames |-> [sec \in SectionNames |-> n]]
NoBanks == [l \in {} |-> [sec \in SectionNames |-> 0]]
BankConfigs == {NoBanks, UniformBanks(SmallBank), UniformBanks(LargeBank)}

\* The learners explored: a caller whose calls and answers are unconstrained;
\* one who follows the UI's protocol (a question, its answer, the next question)
\* and answers anyhow, followed for MaxAnswers answers; and ones who follow the
\* protocol to the end of the test and answer a question correctly exactly when
\* its level is within their ability (0: never, 5: always).
Abilities == 0..5
AnyCaller == [protocol |-> FALSE, ability |-> Undefined]
Erratic == [protocol |-> TRUE, ability |-> Undefined]
Learners ==
    {AnyCaller, Erratic} \cup {[protocol |-> TRUE, ability |-> a] : a \in Abilities}

\* The session object startTest builds (lines 100-123).
NewSession ==
    [ started |-> TRUE,
      currentLevel |-> StartLevel,
      questions |-> << >>,
      answers |-> << >>,
      sectionScores |->
          [sec \in SectionNames |->
              [ correct |-> 0, total |-> 0,
                byLevel |-> [l \in LevelNames |-> [correct |-> 0, total |-> 0]] ]],
      usedQuestionIds |-> {},
      questionCount |-> 0,
      levelHistory |-> << >>,
      finished |-> FALSE ]

\* this.testSession = null
NoSession == [NewSession EXCEPT !.started = FALSE]

\* PlacementTest.selectQuestion without the filter on used ids.
Available_unfiltered(banks, section, level, usedIds) ==
    IF level \notin DOMAIN banks
    THEN {}
    ELSE {id \in 1..banks[level][section] : TRUE}

\* PlacementTest.selectQuestion: the ids of the unused questions of the bank
\* for level and section ({} where it returns null).
Available(banks, section, level, usedIds) ==
    IF level \notin DOMAIN banks
    THEN {}
    ELSE {id \in 1..banks[level][section] : <<level, section, id>> \notin usedIds}

\* The ids Math.random may pick among the available ones: any of the first
\* MaxChoice in bank order for an unconstrained run, the first one for a
\* learner followed to the end of the test.
Picks(available, free) ==
    LET n == IF free THEN MaxChoice ELSE 1
    IN  {id \in available : Cardinality({j \in available : j < id}) < n}

\* PlacementTest.selectQuestion
selectQuestion(banks, section, level, usedIds, free) ==
    {[level |-> level, section |-> section, id |-> id] :
        id \in Picks(Available(banks, section, level, usedIds), free)}

\* The levels getNextQuestion tries, with `for (const dir of [-1, 1])`.
TryOrder_downFirst(level) ==
    LET i == LevelIndex(level)
        cand == <<i, i - 1, i + 1, i - 2, i + 2>>
    IN  SelectSeq(cand, LAMBDA k : k \in DOMAIN LEVELS)

\* The levels getNextQuestion tries, in order: the current one, then
\* +1, -1, +2, -2 steps from it, where such a level exists (lines 178-195).
TryOrder(level) ==
    LET i == LevelIndex(level)
        cand == <<i, i + 1, i - 1, i + 2, i - 2>>
    IN  SelectSeq(cand, LAMBDA k : k \in DOMAIN LEVELS)

\* The questions getNextQuestion may serve: those selectQuestion yields for the
\* first level of TryOrder that has any ({} when none has).
Selectable(banks, s, free) ==
    LET section == sections[(s.questionCount % Len(sections)) + 1]
        order == TryOrder(s.currentLevel)
        found == {k \in DOMAIN order :
                    selectQuestion(banks, section, LEVELS[order[k]],
                                   s.usedQuestionIds, free) # {}}
    IN  IF found = {}
        THEN {}
        ELSE LET first == CHOOSE k \in found : \A j \in found : k <= j
             IN  selectQuestion(banks, section, LEVELS[order[first]],
                                s.usedQuestionIds, free)

\* PlacementTest.formatQuestion keeping only the last served id as used.
formatQuestion_lastOnly(s, q) ==
    [s EXCEPT !.usedQuestionIds = {<<q.level, q.section, q.id>>},
              !.questions = Append(@, [ level |-> q.level, section |-> q.section,
                                        id |-> q.id,
                                        qId |-> <<q.level, q.section, q.id>>,
                                        index |-> s.questionCount ]),
              !.questionCount = @ + 1]

\* PlacementTest.formatQuestion: the session's bookkeeping of a served question.
formatQuestion(s, q) ==
    [s EXCEPT !.usedQuestionIds = @ \cup {<<q.level, q.section, q.id>>},
              !.questions = Append(@, [ level |-> q.level, section |-> q.section,
                                        id |-> q.id,
                                        qId |-> <<q.level, q.section, q.id>>,
                                        index |-> s.questionCount ]),
              !.questionCount = @ + 1]

\* PlacementTest.shouldEndTest without the minimum number of questions.
shouldEndTest_noMinimum(s) ==
    LET recentLevels == LastN(s.levelHistory, stabilityWindow)
    IN  IF Len(recentLevels) < stabilityWindow
        THEN FALSE
        ELSE Cardinality({recentLevels[i].level : i \in DOMAIN recentLevels}) = 1

\* PlacementTest.shouldEndTest
shouldEndTest(s) ==
    IF s.questionCount < minQuestions
    THEN FALSE
    ELSE LET recentLevels == LastN(s.levelHistory, stabilityWindow)
         IN  IF Len(recentLevels) < stabilityWindow
             THEN FALSE
             ELSE Cardinality({recentLevels[i].level : i \in DOMAIN recentLevels}) = 1

\* currentLevelAnswers.length < 3 with one answer fewer asked for.
TooFewAtLevel_two(n) == n < MinLevelAnswers - 1

\* currentLevelAnswers.length < 3
TooFewAtLevel(n) == n < MinLevelAnswers

\* recentAccuracy < moveDownThreshold with the threshold itself included.
MovesDown_inclusive(right, total) == right * 100 <= moveDownThreshold * total

\* recentAccuracy < PlacementTest.CONFIG.moveDownThreshold
MovesDown(right, total) == right * 100 < moveDownThreshold * total

\* PlacementTest.adaptLevel with the top level excluded from the move up.
adaptLevel_belowTop(s) ==
    LET recentAnswers == LastN(s.answers, AdaptWindow)
        atLevel == {i \in DOMAIN recentAnswers :
                        recentAnswers[i].level = s.currentLevel}
        right == {i \in atLevel : recentAnswers[i].correct}
        currentIndex == LevelIndex(s.currentLevel)
    IN  IF Len(recentAnswers) < AdaptWindow THEN s
        ELSE IF TooFewAtLevel(Cardinality(atLevel)) THEN s
        ELSE IF Cardinality(right) * 100 >= adaptiveThreshold * Cardinality(atLevel)
             THEN IF currentIndex < Len(LEVELS) - 1
                  THEN [s EXCEPT !.currentLevel = LEVELS[currentIndex + 1]]
                  ELSE s
        ELSE IF MovesDown(Cardinality(right), Cardinality(atLevel))
             THEN IF currentIndex > 1
                  THEN [s EXCEPT !.currentLevel = LEVELS[currentIndex - 1]]
                  ELSE s
        ELSE s

\* PlacementTest.adaptLevel
adaptLevel(s) ==
    LET recentAnswers == LastN(s.answers, AdaptWindow)
        atLevel == {i \in DOMAIN recentAnswers :
                        recentAnswers[i].level = s.currentLevel}
        right == {i \in atLevel : recentAnswers[i].correct}
        currentIndex == LevelIndex(s.currentLevel)
    IN  IF Len(recentAnswers) < AdaptWindow THEN s
        ELSE IF TooFewAtLevel(Cardinality(atLevel)) THEN s
        ELSE IF Cardinality(right) * 100 >= adaptiveThreshold * Cardinality(atLevel)
             THEN IF currentIndex < Len(LEVELS)
                  THEN [s EXCEPT !.currentLevel = LEVELS[currentIndex + 1]]
                  ELSE s
        ELSE IF MovesDown(Cardinality(right), Cardinality(atLevel))
             THEN IF currentIndex > 1
                  THEN [s EXCEPT !.currentLevel = LEVELS[currentIndex - 1]]
                  ELSE s
        ELSE s

\* The bookkeeping of submitAnswer for the last served question (lines 292-319).
RecordAnswer(s, isCorrect) ==
    LET q == s.questions[Len(s.questions)]
        inc == IF isCorrect THEN 1 ELSE 0
    IN  [s EXCEPT
            !.answers = Append(@, [ questionIndex |-> q.index, qId |-> q.qId,
                                    correct |-> isCorrect, level |-> q.level,
                                    section |-> q.section ]),
            !.sectionScores[q.section].total = @ + 1,
            !.sectionScores[q.section].correct = @ + inc,
            !.sectionScores[q.section].byLevel[q.level].total = @ + 1,
            !.sectionScores[q.section].byLevel[q.level].correct = @ + inc,
            !.levelHistory = Append(@, [level |-> q.level, correct |-> isCorrect])]

\* data && data.total >= 2 with a single answer being enough.
Qualifies_oneAnswer(data) ==
    /\ data.total >= SectionLevelAnswers - 1
    /\ data.correct * 100 >= SectionLevelAccuracy * data.total

\* data && data.total >= 2 and accuracy >= 0.6, accuracy = data.correct / data.total
Qualifies(data) ==
    /\ data.total >= SectionLevelAnswers
    /\ data.correct * 100 >= SectionLevelAccuracy * data.total

\* The loop of determineSectionLevel from the i-th level on, determinedLevel
\* being the level found so far.
RECURSIVE SectionLevelFrom(_, _, _)
SectionLevelFrom(byLevel, i, determinedLevel) ==
    IF i > Len(LEVELS)
    THEN determinedLevel
    ELSE SectionLevelFrom(byLevel, i + 1,
                          IF Qualifies(byLevel[LEVELS[i]])
                          THEN LEVELS[i]
                          ELSE determinedLevel)

\* PlacementTest.determineSectionLevel
determineSectionLevel(byLevel) == SectionLevelFrom(byLevel, 1, LEVELS[1])

\* levelCounts[level] || 0, results being section -> level.
LevelCount(results, level) ==
    Cardinality({sec \in DOMAIN results : results[sec] = level})

\* (levelCounts[level] || 0) > maxCount with ties going to the later level.
Beats_orEqual(count, maxCount) == count >= maxCount

\* (levelCounts[level] || 0) > maxCount
Beats(count, maxCount) == count > maxCount

\* The loop of calculateOverallLevel that finds resultLevel, from the i-th
\* level on.
RECURSIVE MostCommonFrom(_, _, _, _)
MostCommonFrom(results, i, maxCount, resultLevel) ==
    IF i > Len(LEVELS)
    THEN resultLevel
    ELSE IF Beats(LevelCount(results, LEVELS[i]), maxCount)
         THEN MostCommonFrom(results, i + 1, LevelCount(results, LEVELS[i]), LEVELS[i])
         ELSE MostCommonFrom(results, i + 1, maxCount, resultLevel)

\* sectionLevels.reduce((min, l) => indexOf(l) < indexOf(min) ? l : min)
MinLevel(results) ==
    LET idx == {LevelIndex(results[sec]) : sec \in DOMAIN results}
    IN  LEVELS[CHOOSE i \in idx : \A j \in idx : i <= j]

\* PlacementTest.calculateOverallLevel, results being section -> level (every
\* section has one: determineSectionLevel always returns a level).
calculateOverallLevel(results) ==
    LET resultLevel == MostCommonFrom(results, 1, 0, LEVELS[1])
        minIdx == LevelIndex(MinLevel(results))
        resultIdx == LevelIndex(resultLevel)
    IN  IF resultIdx - minIdx >= 2
        THEN LEVELS[Max(1, resultIdx - 1)]
        ELSE resultLevel

\* The result record finishTest stores in the profile (lines 393-437).
PlacementResults(s) ==
    LET results == [sec \in SectionNames |->
                        determineSectionLevel(s.sectionScores[sec].byLevel)]
    IN  [ saved |-> TRUE,
          overallLevel |-> calculateOverallLevel(results),
          sectionLevels |-> results,
          questionsAnswered |-> s.questionCount ]

NoPlacementResults ==
    [ saved |-> FALSE,
      overallLevel |-> LEVELS[1],
      sectionLevels |-> [sec \in SectionNames |-> LEVELS[1]],
      questionsAnswered |-> 0 ]

\* What a PlacementTest call is recorded as having returned.
Returned(op, kind) == [op |-> op, kind |-> kind]

\* A learner following the UI's protocol makes a call only where the UI does
\* (startPlacementTest, showNextPlacementQuestion, submitPlacementAnswer,
\* finishPlacementTest); any other caller makes up to MaxCalls calls in any order.
MayCall(op) ==
    IF learner.protocol
    THEN CASE op = "startTest" -> FALSE
           [] op = "getNextQuestion" ->
                  /\ lastResult.op \in {"startTest", "submitAnswer"}
                  /\ lastResult.kind \in {"session", "answer"}
           [] op = "submitAnswer" ->
                  /\ lastResult = Returned("getNextQuestion", "question")
                  /\ learner = Erratic => Len(testSession.answers) < MaxAnswers
           [] op = "finishTest" -> lastResult = Returned("getNextQuestion", "finished")
    ELSE ptCalls < MaxCalls

\* PlacementTest.startTest, loadQuestionBanks included: the first call fetches
\* the banks; every call replaces the session.
StartTest ==
    /\ MayCall("startTest")
    /\ IF isLoaded
       THEN UNCHANGED <<questionBanks, learner>>
       ELSE /\ questionBanks' \in BankConfigs
            /\ learner' \in Learners
    /\ isLoaded' = TRUE
    /\ testSession' = NewSession
    /\ ptCalls' = ptCalls + 1
    /\ lastResult' = Returned("startTest", "session")
    /\ levelChangedAt' = 0
    /\ UNCHANGED <<storedPlacement, sm2vars, grammarvars, storageFull, vocabvars, purevars, logvars>>

\* PlacementTest.getNextQuestion. With no unused question at the current level
\* or within two levels of it, the call calls itself with the session as it
\* was, without end: the promise is rejected with a RangeError (stack overflow).
GetNextQuestion ==
    /\ MayCall("getNextQuestion")
    /\ ptCalls' = ptCalls + 1
    /\ IF ~testSession.started
       THEN /\ lastResult' = Returned("getNextQuestion", "null")
            /\ UNCHANGED testSession
       ELSE IF testSession.questionCount >= maxQuestions \/ shouldEndTest(testSession)
       THEN /\ lastResult' = Returned("getNextQuestion", "finished")
            /\ UNCHANGED testSession
       ELSE IF Selectable(questionBanks, testSession, ~learner.protocol) = {}
       THEN /\ lastResult' = Returned("getNextQuestion", "RangeError")
            /\ UNCHANGED testSession
       ELSE \E q \in Selectable(questionBanks, testSession, ~learner.protocol) :
                /\ testSession' = formatQuestion(testSession, q)
                /\ lastResult' = Returned("getNextQuestion", "question")
    /\ UNCHANGED <<questionBanks, isLoaded, storedPlacement, learner, levelChangedAt,
                   sm2vars, grammarvars, storageFull, vocabvars, purevars, logvars>>

\* Whether the learner's answer to the last served question is the right one.
AnswersCorrectly(s) ==
    IF learner.ability = Undefined
    THEN BOOLEAN
    ELSE {LevelIndex(s.questions[Len(s.questions)].level) <= learner.ability}

\* PlacementTest.submitAnswer. With no question served yet, currentQuestion is
\* undefined and reading currentQuestion.correct throws a TypeError.
SubmitAnswer ==
    /\ MayCall("submitAnswer")
    /\ ptCalls' = ptCalls + 1
    /\ IF ~testSession.started
       THEN /\ lastResult' = Returned("submitAnswer", "null")
            /\ UNCHANGED <<testSession, levelChangedAt>>
       ELSE IF testSession.questions = << >>
       THEN /\ lastResult' = Returned("submitAnswer", "TypeError")
            /\ UNCHANGED <<testSession, levelChangedAt>>
       ELSE \E isCorrect \in AnswersCorrectly(testSession) :
                /\ testSession' = adaptLevel(RecordAnswer(testSession, isCorrect))
                /\ levelChangedAt' =
                      IF testSession'.currentLevel # testSession.currentLevel
                      THEN Len(testSession'.answers)
                      ELSE levelChangedAt
                /\ lastResult' = Returned("submitAnswer", "answer")
    /\ UNCHANGED <<questionBanks, isLoaded, storedPlacement, learner,
                   sm2vars, grammarvars, storageFull, vocabvars, purevars, logvars>>

\* PlacementTest.finishTest, Database.saveProfile included.
FinishTest ==
    /\ MayCall("finishTest")
    /\ ptCalls' = ptCalls + 1
    /\ IF ~testSession.started
       THEN /\ lastResult' = Returned("finishTest", "null")
            /\ UNCHANGED <<testSession, storedPlacement>>
       ELSE /\ testSession' = [testSession EXCEPT !.finished = TRUE]
            /\ storedPlacement' = setLocalData(storedPlacement,
                                               PlacementResults(testSession))
            /\ lastResult' = Returned("finishTest", "results")
    /\ UNCHANGED <<questionBanks, isLoaded, learner, levelChangedAt,
                   sm2vars, grammarvars, storageFull, vocabvars, purevars, logvars>>

\* The state after construction (lines 10-14); no call has been made and the
\* profile holds no placement result.
PlacementInit ==
    /\ questionBanks = NoBanks
    /\ isLoaded = FALSE
    /\ testSession = NoSession
    /\ storedPlacement = NoPlacementResults
    /\ learner = AnyCaller
    /\ ptCalls = 0
    /\ lastResult = Returned("none", "none")
    /\ levelChangedAt = 0

(***************************************************************************)
(* Vocabulary: the review session (src/js/vocabulary.js).  A session holds *)
(* references to the cards of Vocabulary.cards: it is modelled as the      *)
(* sequence of their words, the cards' data being in cards.  Answers are   *)
(* given without typed input (userInput = null).                           *)
(***************************************************************************)
Words == {"apple", "book"}
Modes == {"receptive", "productive", "definition"}

\* modeKey taken to be 'productive' in productive mode only.
ModeKey_productiveOnly(mode) == IF mode = "productive" THEN "productive" ELSE "receptive"

\* const modeKey = mode === Vocabulary.MODES.RECEPTIVE ? 'receptive' : 'productive'
ModeKey(mode) == IF mode = "receptive" THEN "receptive" ELSE "productive"

\* Vocabulary.createCard: the SM-2 records of a new card.
NewVocabularyCard == [receptive |-> createCard, productive |-> createCard]

\* The sessions startSession may build: which cards are due depends on the
\* clock and the order on the shuffle, so any cards of the vocabulary in any
\* order; a never-answered card is fetched both as due and as new, so a card
\* may be queued twice.
SessionCards ==
    {<< >>} \cup {<<w>> : w \in Words} \cup (Words \X Words)

\* Vocabulary.getCurrentCard staying on the last card once the cursor is past it.
getCurrentCard_lastCard(session) ==
    IF session.cards = << >>
    THEN Null
    ELSE session.cards[Min(session.currentIndex + 1, Len(session.cards))]

\* Vocabulary.getCurrentCard: the word of the current card, Null when there is
\* none (no cards, or the cursor past the last card).
getCurrentCard(session) ==
    IF session.currentIndex + 1 \in DOMAIN session.cards
    THEN session.cards[session.currentIndex + 1]
    ELSE Null

\* How Database.saveVocabularyCard may end: the entry written; or setItem
\* throwing and setLocalData swallowing the error; or, after a quota error,
\* the setItem of clearOldSessions throwing as well, out of setLocalData.
SaveOutcomes == IF storageFull THEN {"swallowed", "thrown"} ELSE {"saved"}

\* Database.saveVocabularyCard: the stored vocabulary after the call.
saveVocabularyCard(stored, word, c, outcome) ==
    IF outcome = "saved" THEN [stored EXCEPT ![word] = c] ELSE stored

\* Vocabulary.startSession
StartSession ==
    /\ vocabCalls < MaxVocabCalls
    /\ vocabCalls' = vocabCalls + 1
    /\ \E mode \in Modes : \E sessionCards \in SessionCards :
          /\ currentSession' = [ mode |-> mode, cards |-> sessionCards,
                                 currentIndex |-> 0, results |-> << >> ]
          /\ gradings' = [position \in DOMAIN sessionCards |-> 0]
    /\ UNCHANGED <<cards, storedVocabulary, lastAnswer, pendingAnswers,
                   sm2vars, grammarvars, placementvars, storageFull, purevars, logvars>>

\* The position of the current card in the queue, graded once more.
Graded(session) == [gradings EXCEPT ![session.currentIndex + 1] = @ + 1]

\* Vocabulary.processAnswer, Database.saveVocabularyCard included: a call that
\* runs to its end before the next call is made.
VocabularyProcessAnswer ==
    /\ vocabCalls < MaxVocabCalls
    /\ vocabCalls' = vocabCalls + 1
    /\ LET word == getCurrentCard(currentSession)
           modeKey == ModeKey(currentSession.mode)
       IN  IF word = Null
           THEN /\ lastAnswer' = [call |-> vocabCalls', outcome |-> "null", word |-> Null,
                                  quality |-> AGAIN, finished |-> FALSE]
                /\ UNCHANGED <<cards, currentSession, storedVocabulary, gradings>>
           ELSE \E quality \in Qualities : \E outcome \in SaveOutcomes :
                  /\ cards' = [cards EXCEPT
                                  ![word][modeKey] = processAnswer(@, quality)]
                  /\ gradings' = Graded(currentSession)
                  /\ storedVocabulary' =
                        saveVocabularyCard(storedVocabulary, word, cards'[word], outcome)
                  /\ lastAnswer' =
                        [ call |-> vocabCalls', outcome |-> outcome,
                          word |-> word, quality |-> quality,
                          finished |-> /\ outcome # "thrown"
                                       /\ currentSession.currentIndex + 1
                                             >= Len(currentSession.cards) ]
                  /\ IF outcome = "thrown"
                     THEN UNCHANGED currentSession
                     ELSE currentSession' =
                            [currentSession EXCEPT
                                !.results = Append(@, [ word |-> word,
                                                        quality |-> quality,
                                                        mode |-> currentSession.mode ]),
                                !.currentIndex = @ + 1]
    /\ UNCHANGED <<pendingAnswers,
                   sm2vars, grammarvars, placementvars, storageFull, purevars, logvars>>

\* Vocabulary.processAnswer up to `await Database.saveVocabularyCard(card)`
\* (lines 411-428): the current card is graded and the call is suspended.
BeginProcessAnswer ==
    /\ vocabCalls < MaxVocabCalls
    /\ Len(pendingAnswers) < MaxPending
    /\ vocabCalls' = vocabCalls + 1
    /\ LET word == getCurrentCard(currentSession)
           modeKey == ModeKey(currentSession.mode)
       IN  IF word = Null
           THEN /\ lastAnswer' = [call |-> vocabCalls', outcome |-> "null", word |-> Null,
                                  quality |-> AGAIN, finished |-> FALSE]
                /\ UNCHANGED <<cards, pendingAnswers, gradings>>
           ELSE \E quality \in Qualities :
                  /\ cards' = [cards EXCEPT
                                  ![word][modeKey] = processAnswer(@, quality)]
                  /\ gradings' = Graded(currentSession)
                  /\ pendingAnswers' =
                        Append(pendingAnswers,
                               [ call |-> vocabCalls', word |-> word,
                                 quality |-> quality, mode |-> currentSession.mode ])
                  /\ UNCHANGED lastAnswer
    /\ UNCHANGED <<currentSession, storedVocabulary,
                   sm2vars, grammarvars, placementvars, storageFull, purevars, logvars>>

\* Vocabulary.processAnswer from the end of the save on (lines 428-446), for
\* the call suspended first: the card is written as it is by then, the result
\* is pushed and the cursor of the current session is incremented.
CompleteProcessAnswer ==
    /\ pendingAnswers # << >>
    /\ LET answer == Head(pendingAnswers)
       IN  \E outcome \in SaveOutcomes :
              /\ storedVocabulary' =
                    saveVocabularyCard(storedVocabulary, answer.word,
                                       cards[answer.word], outcome)
              /\ lastAnswer' =
                    [ call |-> answer.call, outcome |-> outcome,
                      word |-> answer.word, quality |-> answer.quality,
                      finished |-> /\ outcome # "thrown"
                                   /\ currentSession.currentIndex + 1
                                         >= Len(currentSession.cards) ]
              /\ IF outcome = "thrown"
                 THEN UNCHANGED currentSession
                 ELSE currentSession' =
                        [currentSession EXCEPT
                            !.results = Append(@, [ word |-> answer.word,
                                                    quality |-> answer.quality,
                                                    mode |-> answer.mode ]),
                            !.currentIndex = @ + 1]
    /\ pendingAnswers' = Tail(pendingAnswers)
    /\ UNCHANGED <<cards, vocabCalls, gradings,
                   sm2vars, grammarvars, placementvars, storageFull, purevars, logvars>>

\* The state after construction and init(): the vocabulary as stored, no
\* session started.
VocabularyInit ==
    /\ cards = [w \in Words |-> NewVocabularyCard]
    /\ storedVocabulary = [w \in Words |-> NewVocabularyCard]
    /\ currentSession = [ mode |-> Null, cards |-> << >>,
                          currentIndex |-> 0, results |-> << >> ]
    /\ vocabCalls = 0
    /\ lastAnswer = [call |-> 0, outcome |-> "none", word |-> Null, quality |-> AGAIN,
                     finished |-> FALSE]
    /\ pendingAnswers = << >>
    /\ gradings = << >>

(***************************************************************************)
(* The scoring functions of PlacementTest, each applied once to drawn       *)
(* arguments.                                                              *)
(***************************************************************************)
\* The byLevel entries drawn: {correct, total} with no, one and several
\* answers, accuracies below, at and above 0.6.
LevelScores ==
    {[correct |-> x[1], total |-> x[2]] :
        x \in {<<0, 0>>, <<1, 1>>, <<0, 2>>, <<1, 2>>, <<2, 2>>, <<2, 4>>, <<3, 5>>, <<5, 5>>}}

NoScoring ==
    [ op |-> "none",
      byLevel |-> [l \in LevelNames |-> [correct |-> 0, total |-> 0]],
      results |-> [sec \in SectionNames |-> LEVELS[1]],
      level |-> LEVELS[1] ]

\* PlacementTest.determineSectionLevel on a drawn score table.
DetermineSectionLevel ==
    /\ scoring.op = "none"
    /\ \E byLevel \in [LevelNames -> LevelScores] :
          scoring' = [NoScoring EXCEPT !.op = "determineSectionLevel",
                                       !.byLevel = byLevel,
                                       !.level = determineSectionLevel(byLevel)]
    /\ UNCHANGED <<sessionPlan, sm2vars, grammarvars, placementvars, vocabvars,
                   logvars, storageFull>>

\* PlacementTest.calculateOverallLevel on drawn section levels.
CalculateOverallLevel ==
    /\ scoring.op = "none"
    /\ \E results \in [SectionNames -> LevelNames] :
          scoring' = [NoScoring EXCEPT !.op = "calculateOverallLevel",
                                       !.results = results,
                                       !.level = calculateOverallLevel(results)]
    /\ UNCHANGED <<sessionPlan, sm2vars, grammarvars, placementvars, vocabvars,
                   logvars, storageFull>>

ScoringInit == scoring = NoScoring

(***************************************************************************)
(* Vocabulary.startSession applied once to a drawn vocabulary.  Times are  *)
(* relative to Date.now() at the call (0); a card is named by its index in *)
(* Vocabulary.cards.                                                       *)
(***************************************************************************)
\* The cards drawn: never answered or in review in receptive mode, due long
\* ago, due lately or not yet due in either mode.  (A card is created with
\* nextReview = Date.now(); it keeps status new through its learning steps.)
CardKinds ==
    [ receptive : [status : {"new", "review"}, nextReview : {-2, -1, 1}],
      productive : [status : {"review"}, nextReview : {-1, 1}] ]

RECURSIVE SeqsUpTo(_, _)
SeqsUpTo(S, n) ==
    IF n = 0
    THEN {<< >>}
    ELSE SeqsUpTo(S, n - 1)
            \cup {Append(q, x) : q \in {r \in SeqsUpTo(S, n - 1) : Len(r) = n - 1}, x \in S}

Vocabularies == SeqsUpTo(CardKinds, MaxCards)

\* seq.slice(0, n)
Take(seq, n) == SubSeq(seq, 1, Min(Len(seq), Max(n, 0)))

\* array.filter(pred): the kept indices of Vocabulary.cards, in array order.
RECURSIVE InArrayOrder(_)
InArrayOrder(indexes) ==
    IF indexes = {}
    THEN << >>
    ELSE LET first == CHOOSE i \in indexes : \A j \in indexes : i <= j
         IN  <<first>> \o InArrayOrder(indexes \ {first})

\* array.sort((a, b) => a[modeKey].nextReview - b[modeKey].nextReview): stable,
\* the earliest first.
RECURSIVE SortByNextReview(_, _, _)
SortByNextReview(vocabulary, modeKey, indexes) ==
    IF indexes = << >>
    THEN << >>
    ELSE LET k == CHOOSE k \in DOMAIN indexes :
                    \A j \in DOMAIN indexes :
                        \/ vocabulary[indexes[k]][modeKey].nextReview
                              < vocabulary[indexes[j]][modeKey].nextReview
                        \/ /\ vocabulary[indexes[k]][modeKey].nextReview
                                = vocabulary[indexes[j]][modeKey].nextReview
                           /\ k <= j
             rest == SubSeq(indexes, 1, k - 1) \o SubSeq(indexes, k + 1, Len(indexes))
         IN  <<indexes[k]>> \o SortByNextReview(vocabulary, modeKey, rest)

\* Vocabulary.getDueCards
getDueCards(vocabulary, mode) ==
    LET modeKey == ModeKey(mode)
        due == {i \in DOMAIN vocabulary : vocabulary[i][modeKey].nextReview <= 0}
    IN  SortByNextReview(vocabulary, modeKey, InArrayOrder(due))

\* Vocabulary.getNewCards
getNewCards(vocabulary, limit) ==
    LET new == {i \in DOMAIN vocabulary : vocabulary[i].receptive.status = "new"}
    IN  Take(InArrayOrder(new), limit)

\* The queue startSession builds before it shuffles it (lines 221-226).
SessionQueue(vocabulary, mode, limit) ==
    LET dueCards == getDueCards(vocabulary, mode)
        newCards == getNewCards(vocabulary, limit - Min(Len(dueCards), limit))
    IN  Take(Take(dueCards, limit) \o newCards, limit)

\* Vocabulary.shuffleArray: the orders the shuffle may leave the queue in.
shuffleArray(queue) ==
    {[i \in DOMAIN queue |-> queue[f[i]]] :
        f \in {g \in [DOMAIN queue -> DOMAIN queue] :
                  \A i, j \in DOMAIN queue : g[i] = g[j] => i = j}}

NoPlan ==
    [ op |-> "none", vocabulary |-> << >>, mode |-> Null, limit |-> 0,
      cards |-> << >>, currentIndex |-> 0, results |-> << >> ]

\* Vocabulary.startSession on a drawn vocabulary.
PlanSession ==
    /\ sessionPlan.op = "none"
    /\ \E vocabulary \in Vocabularies : \E mode \in Modes : \E limit \in 1..MaxLimit :
          \E queue \in shuffleArray(SessionQueue(vocabulary, mode, limit)) :
              sessionPlan' = [ op |-> "startSession", vocabulary |-> vocabulary,
                               mode |-> mode, limit |-> limit,
                               cards |-> queue, currentIndex |-> 0,
                               results |-> << >> ]
    /\ UNCHANGED <<scoring, sm2vars, grammarvars, placementvars, vocabvars, logvars,
                   storageFull>>

PlanInit == sessionPlan = NoPlan

(***************************************************************************)
(* Database.logSession: the sessions log in localStorage                   *)
(* (src/js/database.js).  Time is counted in days; a logged record is its  *)
(* call number and its timestamp.                                          *)
(***************************************************************************)
SessionCap == 100       \* sessions.slice(-100)
DefaultDays == 30       \* getSessions(days = 30)

\* How far the clock moves between two calls: within the period getSessions
\* looks back on by default, or beyond it.
DayJumps == {1, DefaultDays + 1}

\* Database.getSessions(days): the stored records younger than the cutoff.
getSessions(stored, days, now) ==
    SelectSeq(stored, LAMBDA rec : rec.timestamp > now - days)

\* const sessions = await this.getSessions()
sessionsToLog(stored, now) == getSessions(stored, DefaultDays, now)

\* Database.logSession
LogSession ==
    /\ logCalls < MaxLogCalls
    /\ logCalls' = logCalls + 1
    /\ LET sessions == Append(sessionsToLog(storedSessions, clock),
                              [id |-> logCalls + 1, timestamp |-> clock])
           trimmed == LastN(sessions, SessionCap)
       IN  storedSessions' = setLocalData(storedSessions, trimmed)
    /\ UNCHANGED <<clock, timeSteps, sm2vars, grammarvars, placementvars, vocabvars,
                   purevars, storageFull>>

\* Time passes between two calls.
TimePasses ==
    /\ timeSteps < MaxTimeSteps
    /\ timeSteps' = timeSteps + 1
    /\ \E days \in DayJumps : clock' = clock + days
    /\ UNCHANGED <<storedSessions, logCalls, sm2vars, grammarvars, placementvars,
                   vocabvars, purevars, storageFull>>

\* The log of a new user.
LogInit ==
    /\ storedSessions = << >>
    /\ clock = 0
    /\ timeSteps = 0
    /\ logCalls = 0

StorageInit == storageFull \in BOOLEAN

Init ==
    /\ SM2Init /\ GrammarInit /\ PlacementInit /\ VocabularyInit /\ StorageInit
    /\ ScoringInit /\ PlanInit /\ LogInit

SM2Next == ProcessAnswer

\* The scheduler alone: it never touches localStorage.
InitSM2 == Init /\ ~storageFull

SpecSM2 == InitSM2 /\ [][SM2Next]_vars

\* The scheduler with a learner who, from some answer on, answers GOOD on
\* every review, and goes on reviewing.
GoodRunNext == ProcessAnswer \/ StartGoodRun \/ AnswerGood
SpecGoodRun == InitSM2 /\ [][GoodRunNext]_vars /\ WF_vars(AnswerGood)

GrammarNext == StartTopic \/ GoToPhase \/ CompletePhase

SpecGrammar == Init /\ [][GrammarNext]_vars

\* Grammar in any session: progress as loaded by init(), localStorage working.
InitResumed ==
    /\ SM2Init /\ GrammarResumedInit /\ PlacementInit /\ VocabularyInit /\ StorageInit
    /\ ScoringInit /\ PlanInit /\ LogInit
    /\ ~storageFull
SpecGrammarResumed == InitResumed /\ [][GrammarNext]_vars

PlacementNext == StartTest \/ GetNextQuestion \/ SubmitAnswer \/ FinishTest
SpecPlacement == Init /\ [][PlacementNext]_vars

VocabularyNext == StartSession \/ VocabularyProcessAnswer
SpecVocabulary == Init /\ [][VocabularyNext]_vars

\* Vocabulary with calls of processAnswer that may overlap: the answer buttons
\* call submitVocabAnswer without waiting for the call before (localStorage
\* working).
InitOverlap == Init /\ ~storageFull
OverlapNext == StartSession \/ BeginProcessAnswer \/ CompleteProcessAnswer
SpecVocabularyOverlap == InitOverlap /\ [][OverlapNext]_vars

\* The scoring functions alone: they never touch localStorage.
InitScoring == Init /\ ~storageFull
ScoringNext == DetermineSectionLevel \/ CalculateOverallLevel
SpecScoring == InitScoring /\ [][ScoringNext]_vars

LogNext == LogSession \/ TimePasses
SpecSessions == Init /\ [][LogNext]_vars

\* startSession alone: it never touches localStorage.
InitPlan == Init /\ ~storageFull
PlanNext == PlanSession
SpecStartSession == InitPlan /\ [][PlanNext]_vars

Next ==
    \/ SM2Next \/ GrammarNext \/ PlacementNext \/ VocabularyNext \/ ScoringNext
    \/ LogNext \/ PlanNext \/ GoodRunNext \/ OverlapNext

Spec == Init /\ [][Next]_vars

(***************************************************************************)
(* Properties of the card scheduler, checked under SpecSM2.                *)
(***************************************************************************)

\* C1: after every processAnswer step on a card made by createCard,
\* easeFactor is within [1.3, 3.0] and interval >= 0; the learning-phase EASY
\* branch adds 0.15 unclamped, yet never lifts easeFactor above 3.0.
EaseAndIntervalWithinBounds ==
    /\ card.easeFactor >= minEaseFactor
    /\ card.easeFactor <= maxEaseFactor
    /\ card.interval >= 0

\* A lapsed card whose ease had reached the maximum, answered EASY in learning.
EasyInLearningNearMaxEase ==
    /\ lastCall.called
    /\ lastCall.statusBefore = "learning"
    /\ lastCall.quality = EASY
    /\ card.easeFactor = maxEaseFactor - 20 + 15

\* C2: status is 'learned' if and only if interval >= 21, in every reachable
\* card state.
LearnedIffIntervalAtLeast21 ==
    (card.status = "learned") <=> (card.interval >= LearnedInterval)

\* C3: status 'learned' implies interval >= 21; a learned card answered
\* HARD/GOOD/EASY keeps interval >= 21 and one answered AGAIN is no longer
\* learned.
LearnedImpliesIntervalAtLeast21 ==
    /\ card.status = "learned" => card.interval >= LearnedInterval
    /\ (lastCall.called /\ lastCall.statusBefore = "learned") =>
          IF lastCall.quality = AGAIN
          THEN card.status # "learned"
          ELSE card.status = "learned" /\ card.interval >= LearnedInterval

\* A learned card answered HARD.
LearnedCardAnsweredHard ==
    /\ lastCall.called
    /\ lastCall.statusBefore = "learned"
    /\ lastCall.quality = HARD
    /\ card.status = "learned"

\* C4: interval is 0 whenever status is 'new' or 'learning'.
IntervalZeroWhileLearning ==
    card.status \in {"new", "learning"} => card.interval = 0

\* C5: a processAnswer step that takes a card out of new/learning leaves it in
\* status 'review' with interval 1 after GOOD or interval 4 after EASY, and an
\* EASY answer on a never-answered card graduates it in that one step.
GraduationInterval ==
    /\ ( /\ lastCall.called
         /\ lastCall.statusBefore \in {"new", "learning"}
         /\ card.status \notin {"new", "learning"} ) =>
          /\ card.status = "review"
          /\ \/ lastCall.quality = GOOD /\ card.interval = graduatingInterval
             \/ lastCall.quality = EASY /\ card.interval = easyInterval
    /\ ( /\ lastCall.called
         /\ ~lastCall.answeredBefore
         /\ lastCall.quality = EASY ) =>
          card.status = "review" /\ card.interval = easyInterval

\* A lapsed card graduating again by a GOOD answer on the last ladder step.
RegraduatedByGood ==
    /\ lastCall.called
    /\ lastCall.statusBefore = "learning"
    /\ lastCall.quality = GOOD
    /\ card.status = "review"
    /\ card.lapses > 0

(***************************************************************************)
(* Properties of the topic state machine, checked under SpecGrammar.       *)
(***************************************************************************)

\* Position of a phase in PHASE_ORDER.
PhaseIndex(phase) == CHOOSE i \in DOMAIN PHASE_ORDER : PHASE_ORDER[i] = phase

\* Whether the i-th phase of PHASE_ORDER (1..6) is satisfied in record p.
Satisfied(p, i) ==
    CASE i = 1 -> p.phases.discover
      [] i = 2 -> p.phases.understand
      [] i = 3 -> p.phases.notice
      [] i = 4 -> p.phases.practice.completed
      [] i = 5 -> p.phases.produce.completed
      [] i = 6 -> p.phases.input_flood >= FloodTarget

\* C6: no step moves a topic's derived phase to an earlier phase of
\* PHASE_ORDER (completePhase is the only operation changing a record).
DerivedPhaseNeverMovesBackward ==
    [][\A t \in DOMAIN progress :
          PhaseIndex(determineCurrentPhase(progress'[t]))
              >= PhaseIndex(determineCurrentPhase(progress[t]))]_vars

\* C7: no phase is recorded as satisfied while an earlier phase of
\* discover .. input_flood is unsatisfied.
PhasesSatisfiedInOrder ==
    \A t \in DOMAIN progress :
        \A i, j \in 1..6 :
            (i < j /\ Satisfied(progress[t], j)) => Satisfied(progress[t], i)

\* C8: deriving the current phase again (startTopic on the topic last derived
\* for) with no completePhase in between yields the same phase as the previous
\* derivation and leaves the progress records unchanged.
DerivationIdempotent ==
    [][( /\ lastOp'.op = "startTopic"
         /\ lastOp.derived # Null
         /\ lastOp'.topic = lastOp.topic ) =>
            /\ lastOp'.derived = lastOp.derived
            /\ currentPhase' = lastOp.derived
            /\ progress' = progress]_vars

\* A partly completed topic re-entered: its phase derived by startTopic.
TopicResumedAtDerivedPhase ==
    /\ lastOp.op = "startTopic"
    /\ currentTopic \in DOMAIN progress
    /\ progress[currentTopic].phases.discover
    /\ progress[currentTopic].phases.practice.attempts > 0
    /\ currentPhase = lastOp.derived

\* C9: a topic is marked completed (completedAt set) exactly when discover,
\* understand, notice, practice.completed, produce.completed hold and
\* input_flood >= 5 in the current record.
CompletedExactlyWhenSatisfied ==
    \A t \in DOMAIN progress :
        (progress[t].completedAt # Null) <=> isTopicCompleted(progress[t])

\* C10: acquired implies that the topic currently satisfies the completion
\* condition and that the recorded review accuracy is >= 0.8.
AcquiredImpliesCompletedAndAccurate ==
    \A t \in DOMAIN progress :
        progress[t].acquired =>
            /\ isTopicCompleted(progress[t])
            /\ progress[t].phases.review.accuracy >= AcquiredAccuracy


(***************************************************************************)
(* C11: after a successful startTopic, whatever startTopic, goToPhase and  *)
(* completePhase calls follow, the phase Grammar.getCurrentState exposes   *)
(* (this.currentPhase) equals the phase determineCurrentPhase derives from *)
(* the current topic's recorded flags.                                     *)
(***************************************************************************)
ExposedPhaseIsDerivedPhase ==
    currentTopic # Null =>
        currentPhase = determineCurrentPhase(progress[currentTopic])


(***************************************************************************)
(* C12: with large banks at every level and section, a run alternating     *)
(* getNextQuestion and submitAnswer in which every answer is correct is    *)
(* told finished at level C1 after at most minQuestions + stabilityWindow  *)
(* questions, and one in which every answer is incorrect at level A1       *)
(* within the same bound.  Until the run has been told finished and has    *)
(* called finishTest its next call is always due (a call that is due is    *)
(* always answered) and none fails, so the run, whose question count is    *)
(* bounded, does get there.                                                *)
(***************************************************************************)
AlwaysCorrect == [protocol |-> TRUE, ability |-> Len(LEVELS)]
AlwaysIncorrect == [protocol |-> TRUE, ability |-> 0]
RunEndLevel ==
    IF learner = AlwaysCorrect THEN LEVELS[Len(LEVELS)] ELSE LEVELS[1]

SteadyRunsEndAtExtremeLevel ==
    ( /\ testSession.started
      /\ learner \in {AlwaysCorrect, AlwaysIncorrect}
      /\ questionBanks = UniformBanks(LargeBank) )
    => /\ testSession.questionCount <= minQuestions + stabilityWindow
       /\ lastResult.kind # "RangeError"
       /\ lastResult.kind \in {"finished", "results"}
            => testSession.currentLevel = RunEndLevel
       /\ lastResult.kind # "results"
            => \E op \in {"getNextQuestion", "submitAnswer", "finishTest"} : MayCall(op)

AllCorrectRunFinishedAtC1 ==
    /\ learner = AlwaysCorrect
    /\ questionBanks = UniformBanks(LargeBank)
    /\ lastResult = Returned("getNextQuestion", "finished")
    /\ testSession.currentLevel = "C1"
    /\ testSession.questionCount <= minQuestions + stabilityWindow
    /\ \A i \in DOMAIN testSession.answers : testSession.answers[i].correct

AllIncorrectRunFinishedAtA1 ==
    /\ learner = AlwaysIncorrect
    /\ questionBanks = UniformBanks(LargeBank)
    /\ lastResult = Returned("getNextQuestion", "finished")
    /\ testSession.currentLevel = "A1"
    /\ \A i \in DOMAIN testSession.answers : ~testSession.answers[i].correct


(***************************************************************************)
(* C13: in any placement run no question id is served twice, questions     *)
(* served from an adjacent level included: the entries of                  *)
(* testSession.questions have distinct qIds and usedQuestionIds has        *)
(* questionCount elements.                                                 *)
(***************************************************************************)
NoQuestionServedTwice ==
    testSession.started =>
        /\ \A i, j \in DOMAIN testSession.questions :
              testSession.questions[i].qId = testSession.questions[j].qId => i = j
        /\ Cardinality(testSession.usedQuestionIds) = testSession.questionCount
        /\ testSession.usedQuestionIds
              = {testSession.questions[i].qId : i \in DOMAIN testSession.questions}

QuestionServedFromAdjacentLevel ==
    /\ testSession.started
    /\ testSession.answers = << >>
    /\ testSession.questionCount > Len(sections)
    /\ \E i \in DOMAIN testSession.questions :
          testSession.questions[i].level # StartLevel


(***************************************************************************)
(* C14: every getNextQuestion call on a started session returns a question *)
(* or {finished: true}, also when the current section has no unused        *)
(* question at the current level or within two levels of it, and when the  *)
(* question banks are absent altogether.                                   *)
(***************************************************************************)
GetNextQuestionAlwaysAnswers ==
    (testSession.started /\ lastResult.op = "getNextQuestion")
        => lastResult.kind \in {"question", "finished"}


(***************************************************************************)
(* C15: getNextQuestion on a started session returns {finished: true}      *)
(* exactly when questionCount >= maxQuestions, or questionCount >=         *)
(* minQuestions and the last stabilityWindow entries of levelHistory all   *)
(* carry the same level; so no more than maxQuestions questions are ever   *)
(* served and finished is never reported before minQuestions were served.  *)
(***************************************************************************)
LevelStable(s) ==
    /\ Len(s.levelHistory) >= stabilityWindow
    /\ \A i, j \in (Len(s.levelHistory) - stabilityWindow + 1)..Len(s.levelHistory) :
          s.levelHistory[i].level = s.levelHistory[j].level

EndCondition(s) ==
    \/ s.questionCount >= maxQuestions
    \/ s.questionCount >= minQuestions /\ LevelStable(s)

FinishedExactlyOnEndCondition ==
    [][ /\ (testSession.started /\ ptCalls' # ptCalls
                /\ lastResult'.op = "getNextQuestion")
            => (lastResult'.kind = "finished" <=> EndCondition(testSession))
        /\ testSession'.questionCount <= maxQuestions
        /\ lastResult'.kind = "finished"
            => testSession'.questionCount >= minQuestions ]_vars

FinishedAtMaxQuestions ==
    /\ lastResult = Returned("getNextQuestion", "finished")
    /\ testSession.questionCount = maxQuestions
    /\ ~LevelStable(testSession)


(***************************************************************************)
(* C16: the adaptation rule is applied only after every fifth answered     *)
(* question: a submitAnswer call can change currentLevel only when the     *)
(* number of answers recorded so far is a multiple of 5.                   *)
(***************************************************************************)
SubmitStep ==
    /\ testSession.started
    /\ ptCalls' # ptCalls
    /\ lastResult' = Returned("submitAnswer", "answer")

LevelChangesOnlyOnFifthAnswers ==
    [][ (SubmitStep /\ testSession'.currentLevel # testSession.currentLevel)
            => Len(testSession'.answers) % AdaptWindow = 0 ]_vars

(***************************************************************************)
(* C16, as the code has it: the rule is applied after every answer; a      *)
(* submitAnswer call can change currentLevel only when at least 5 answers  *)
(* are recorded and at least 3 of the 5 most recent ones were given at the *)
(* level current before the call.                                          *)
(***************************************************************************)
RecentAtLevel(s, level) ==
    {i \in DOMAIN s.answers :
        i > Len(s.answers) - AdaptWindow /\ s.answers[i].level = level}

LevelChangesOnlyOnFullWindow ==
    [][ (SubmitStep /\ testSession'.currentLevel # testSession.currentLevel)
            => /\ Len(testSession'.answers) >= AdaptWindow
               /\ Cardinality(RecentAtLevel(testSession', testSession.currentLevel))
                     >= MinLevelAnswers ]_vars

LevelChangedAtEighthAnswer ==
    /\ testSession.started
    /\ Len(testSession.answers) = 8
    /\ testSession.currentLevel = "B2"
    /\ \A i \in 1..5 : testSession.answers[i].level = "A2"
    /\ \A i \in 6..8 : testSession.answers[i].level = "B1"


(***************************************************************************)
(* C17: when the 5 most recent answers hold at least 3 answers at          *)
(* currentLevel, adaptLevel moves currentLevel up exactly one step if      *)
(* their accuracy is >= 0.7 and the level is not C1, down exactly one step *)
(* if it is < 0.4 and the level is not A1, and leaves it unchanged         *)
(* otherwise; with fewer than 5 answers, or fewer than 3 at the current    *)
(* level, the level never changes.                                         *)
(***************************************************************************)
RecentCorrectAtLevel(s, level) ==
    {i \in RecentAtLevel(s, level) : s.answers[i].correct}

AdaptationRule(levelBefore, s) ==
    LET n == Cardinality(RecentAtLevel(s, levelBefore))
        r == Cardinality(RecentCorrectAtLevel(s, levelBefore))
        k == LevelIndex(levelBefore)
    IN  IF Len(s.answers) < 5 \/ n < 3
        THEN s.currentLevel = levelBefore
        ELSE IF 10 * r >= 7 * n /\ levelBefore # "C1"
        THEN s.currentLevel = LEVELS[k + 1]
        ELSE IF 10 * r < 4 * n /\ 10 * r < 7 * n /\ levelBefore # "A1"
        THEN s.currentLevel = LEVELS[k - 1]
        ELSE s.currentLevel = levelBefore

LevelFollowsAdaptationRule ==
    [][ SubmitStep => AdaptationRule(testSession.currentLevel, testSession') ]_vars

FourOfFiveCorrectMovedUp ==
    /\ testSession.started
    /\ Len(testSession.answers) = 5
    /\ \A i \in 1..5 : testSession.answers[i].level = StartLevel
    /\ Cardinality({i \in 1..5 : testSession.answers[i].correct}) = 4
    /\ testSession.currentLevel = LEVELS[LevelIndex(StartLevel) + 1]


(***************************************************************************)
(* C18: during a placement session usedQuestionIds only grows and          *)
(* currentLevel is changed only by the adaptation step inside              *)
(* submitAnswer: getNextQuestion and finishTest leave currentLevel         *)
(* unchanged, submitAnswer leaves usedQuestionIds and questionCount        *)
(* unchanged.                                                              *)
(***************************************************************************)
CallWithinSession(op) ==
    /\ testSession.started
    /\ ptCalls' # ptCalls
    /\ lastResult'.op = op

SessionFrame ==
    [][ /\ \A op \in {"getNextQuestion", "submitAnswer", "finishTest"} :
              CallWithinSession(op)
                  => testSession.usedQuestionIds \subseteq testSession'.usedQuestionIds
        /\ \A op \in {"getNextQuestion", "finishTest"} :
              CallWithinSession(op)
                  => testSession'.currentLevel = testSession.currentLevel
        /\ CallWithinSession("submitAnswer")
              => /\ testSession'.usedQuestionIds = testSession.usedQuestionIds
                 /\ testSession'.questionCount = testSession.questionCount ]_vars

SessionFinishedAwayFromStartLevel ==
    /\ lastResult = Returned("finishTest", "results")
    /\ testSession.finished
    /\ testSession.currentLevel # StartLevel
    /\ testSession.usedQuestionIds # {}
    /\ testSession.answers # << >>


(***************************************************************************)
(* C19: once finishTest has marked the session finished, any later         *)
(* getNextQuestion or submitAnswer call leaves answers, sectionScores,     *)
(* levelHistory, currentLevel, questionCount and usedQuestionIds           *)
(* unchanged.                                                              *)
(***************************************************************************)
FinishedSessionImmutable ==
    [][ \A op \in {"getNextQuestion", "submitAnswer"} :
            (testSession.finished /\ CallWithinSession(op))
                => /\ testSession'.answers = testSession.answers
                   /\ testSession'.sectionScores = testSession.sectionScores
                   /\ testSession'.levelHistory = testSession.levelHistory
                   /\ testSession'.currentLevel = testSession.currentLevel
                   /\ testSession'.questionCount = testSession.questionCount
                   /\ testSession'.usedQuestionIds = testSession.usedQuestionIds ]_vars


(***************************************************************************)
(* C20: Vocabulary.processAnswer is all-or-nothing with respect to         *)
(* persistence failure: if saving the card fails, the card's scheduling    *)
(* record, the session's outcome list and the cursor are unchanged; if it  *)
(* succeeds, the card is advanced, exactly one outcome is appended and the *)
(* cursor advances by one.                                                 *)
(***************************************************************************)
AnswerStep ==
    /\ vocabCalls' # vocabCalls
    /\ lastAnswer'.call = vocabCalls'
    /\ getCurrentCard(currentSession) # Null

ProcessAnswerAllOrNothing ==
    [][ AnswerStep =>
          LET word == getCurrentCard(currentSession)
              modeKey == ModeKey(currentSession.mode)
          IN  IF lastAnswer'.outcome = "saved"
              THEN /\ cards'[word][modeKey]
                        = processAnswer(cards[word][modeKey], lastAnswer'.quality)
                   /\ storedVocabulary'[word] = cards'[word]
                   /\ Len(currentSession'.results) = Len(currentSession.results) + 1
                   /\ currentSession'.currentIndex = currentSession.currentIndex + 1
              ELSE /\ cards' = cards
                   /\ currentSession'.results = currentSession.results
                   /\ currentSession'.currentIndex = currentSession.currentIndex ]_vars


(***************************************************************************)
(* C21: for every per-level score table of a section,                      *)
(* determineSectionLevel returns the highest level of A1..C1 at which      *)
(* total >= 2 and correct/total >= 0.6, and A1 when no level qualifies.    *)
(***************************************************************************)
QualifyingLevels(byLevel) ==
    {i \in DOMAIN LEVELS :
        /\ byLevel[LEVELS[i]].total >= 2
        /\ 10 * byLevel[LEVELS[i]].correct >= 6 * byLevel[LEVELS[i]].total}

SectionLevelIsHighestQualifying ==
    scoring.op = "determineSectionLevel" =>
        LET ok == QualifyingLevels(scoring.byLevel)
        IN  IF ok = {}
            THEN scoring.level = "A1"
            ELSE /\ LevelIndex(scoring.level) \in ok
                 /\ \A j \in ok : j <= LevelIndex(scoring.level)

SectionLevelBelowUnqualifiedTop ==
    /\ scoring.op = "determineSectionLevel"
    /\ scoring.level = "B1"
    /\ scoring.byLevel["B1"] = [correct |-> 3, total |-> 5]
    /\ scoring.byLevel["A2"] = [correct |-> 1, total |-> 2]
    /\ scoring.byLevel["C1"] = [correct |-> 1, total |-> 1]


(***************************************************************************)
(* C22: for every assignment of levels to the four sections,               *)
(* calculateOverallLevel returns the most frequent section level, the      *)
(* lowest among equally frequent ones, lowered by exactly one level when   *)
(* the lowest section level is 2 or more levels below that mode; the       *)
(* result lies between the lowest and the highest section level.           *)
(***************************************************************************)
Frequency(results, i) ==
    Cardinality({sec \in SectionNames : results[sec] = LEVELS[i]})

ModeIndex(results) ==
    CHOOSE i \in DOMAIN LEVELS :
        /\ \A j \in DOMAIN LEVELS : Frequency(results, j) <= Frequency(results, i)
        /\ \A j \in DOMAIN LEVELS :
              Frequency(results, j) = Frequency(results, i) => i <= j

SectionIndexes(results) == {LevelIndex(results[sec]) : sec \in SectionNames}

OverallLevelIsLoweredMode ==
    scoring.op = "calculateOverallLevel" =>
        LET m == ModeIndex(scoring.results)
            idx == SectionIndexes(scoring.results)
            lowest == CHOOSE i \in idx : \A j \in idx : i <= j
            highest == CHOOSE i \in idx : \A j \in idx : j <= i
            k == LevelIndex(scoring.level)
        IN  /\ k = IF m - lowest >= 2 THEN m - 1 ELSE m
            /\ lowest <= k
            /\ k <= highest

OverallLevelLoweredBelowMode ==
    /\ scoring.op = "calculateOverallLevel"
    /\ scoring.level = "B2"
    /\ scoring.results["reading"] = "A1"
    /\ \A sec \in SectionNames \ {"reading"} : scoring.results[sec] = "C1"


(***************************************************************************)
(* C23: after any sequence of Database.logSession calls the stored         *)
(* sessions log holds at most 100 records, and each call only appends: the *)
(* records stored before are all retained, in order, except the oldest     *)
(* ones evicted to respect the cap of 100; none is dropped for another     *)
(* reason such as its age.  (A call whose write fails stores nothing.)     *)
(***************************************************************************)
SessionsLogAppendOnlyCapped ==
    [][ logCalls' # logCalls =>
          /\ Len(storedSessions') <= 100
          /\ \/ storageFull /\ storedSessions' = storedSessions
             \/ /\ Len(storedSessions') >= 1
                /\ storedSessions'[Len(storedSessions')].id = logCalls'
                /\ SubSeq(storedSessions', 1, Len(storedSessions') - 1)
                      = LastN(storedSessions, 99) ]_vars


(***************************************************************************)
(* C24: for a card in status review or learned and quality HARD, GOOD or   *)
(* EASY, processAnswer increments repetitions by 1, adds -0.14, 0 or +0.10 *)
(* to easeFactor and clamps it to [1.3, 3.0], then sets interval to        *)
(* round(interval*1.2), round(interval*easeFactor) or                      *)
(* round(interval*easeFactor*1.3) with the updated easeFactor.             *)
(***************************************************************************)
InReview(c) == c.status \in {"review", "learned"}

SuccessfulReviewArithmetic ==
    [][ (InReview(card) /\ lastCall'.quality \in {HARD, GOOD, EASY}) =>
          LET q == lastCall'.quality
              ef == card.easeFactor + (CASE q = HARD -> -14 [] q = GOOD -> 0 [] q = EASY -> 10)
              clamped == IF ef < 130 THEN 130 ELSE IF ef > 300 THEN 300 ELSE ef
          IN  /\ card'.repetitions = card.repetitions + 1
              /\ card'.easeFactor = clamped
              /\ card'.interval =
                    CASE q = HARD -> RoundDiv(card.interval * 12, 10)
                      [] q = GOOD -> RoundDiv(card.interval * clamped, 100)
                      [] q = EASY -> RoundDiv(card.interval * clamped * 13, 1000) ]_vars

\* The claim's example: a new card answered GOOD, GOOD, EASY.
GoodGoodEasy ==
    /\ card.status = "review"
    /\ card.easeFactor = 260
    /\ card.interval = 3
    /\ card.repetitions = 1
    /\ card.lapses = 0
    /\ card.learningStep = 2
    /\ lastCall.quality = EASY

(***************************************************************************)
(* C25: an AGAIN answer on a card in status review or learned increases    *)
(* lapses by exactly 1, sets status to learning and learningStep to 0,     *)
(* lowers easeFactor by 0.2 but not below 1.3, and leaves repetitions      *)
(* unchanged; over any sequence of answers neither lapses nor repetitions  *)
(* ever decreases.                                                         *)
(***************************************************************************)
LapseEffect ==
    [][ /\ (InReview(card) /\ lastCall'.quality = AGAIN) =>
              /\ card'.lapses = card.lapses + 1
              /\ card'.status = "learning"
              /\ card'.learningStep = 0
              /\ card'.easeFactor =
                    IF card.easeFactor - 20 < 130 THEN 130 ELSE card.easeFactor - 20
              /\ card'.repetitions = card.repetitions
        /\ card'.lapses >= card.lapses
        /\ card'.repetitions >= card.repetitions ]_vars

LapsedAtMinimumEase ==
    /\ lastCall.called
    /\ lastCall.quality = AGAIN
    /\ lastCall.statusBefore \in {"review", "learned"}
    /\ card.status = "learning"
    /\ card.easeFactor = minEaseFactor
    /\ card.repetitions > 0
    /\ card.lapses >= 2

(***************************************************************************)
(* C26: for a card in status new or learning, with the ladder [1 min,      *)
(* 10 min]: AGAIN sets learningStep to 0, HARD leaves it unchanged, GOOD   *)
(* increments it by 1 and graduates the card exactly when the incremented  *)
(* index reaches the ladder length (so a card at step s graduates after    *)
(* exactly 2 - s consecutive GOOD answers); in every state with status new *)
(* or learning, learningStep is 0 or 1.                                    *)
(***************************************************************************)
InLearning(c) == c.status \in {"new", "learning"}

LearningLadder ==
    [][ /\ (InLearning(card) /\ lastCall'.quality = AGAIN) =>
              card'.learningStep = 0 /\ InLearning(card')
        /\ (InLearning(card) /\ lastCall'.quality = HARD) =>
              card'.learningStep = card.learningStep /\ InLearning(card')
        /\ (InLearning(card) /\ lastCall'.quality = GOOD) =>
              /\ card'.learningStep = card.learningStep + 1
              /\ card'.status = "review" <=> card.learningStep + 1 = 2
              /\ card.learningStep + 1 < 2 => InLearning(card')
        /\ InLearning(card') => card'.learningStep \in {0, 1} ]_vars

GraduatedFromLastStep ==
    /\ lastCall.called
    /\ lastCall.quality = GOOD
    /\ lastCall.statusBefore = "learning"
    /\ card.status = "review"
    /\ card.learningStep = 2
    /\ card.lapses > 0


(***************************************************************************)
(* C27: startSession(mode, limit) builds a queue of at most limit cards    *)
(* with cursor 0 in which due cards take priority over new cards: if at    *)
(* least limit cards are due in that mode, the queue consists of exactly   *)
(* the limit cards with the smallest mode-specific nextReview and no new   *)
(* card; otherwise it contains every due card plus at most (limit - number *)
(* due) new cards.  A new card is a card of status new.                    *)
(***************************************************************************)
DueCards(plan) ==
    {i \in DOMAIN plan.vocabulary :
        plan.vocabulary[i][ModeKey(plan.mode)].nextReview <= 0}

NewCards(plan) ==
    {i \in DOMAIN plan.vocabulary : plan.vocabulary[i].receptive.status = "new"}

Queued(plan) == {plan.cards[p] : p \in DOMAIN plan.cards}

DueCardsBeforeNewCards ==
    sessionPlan.op = "startSession" =>
        LET due == DueCards(sessionPlan)
            key == ModeKey(sessionPlan.mode)
            v == sessionPlan.vocabulary
            q == sessionPlan.cards
        IN  /\ Len(q) <= sessionPlan.limit
            /\ sessionPlan.currentIndex = 0
            /\ IF Cardinality(due) >= sessionPlan.limit
               THEN /\ Len(q) = sessionPlan.limit
                    /\ Cardinality(Queued(sessionPlan)) = sessionPlan.limit
                    /\ Queued(sessionPlan) \subseteq due
                    /\ \A i \in Queued(sessionPlan) : \A j \in due \ Queued(sessionPlan) :
                          v[i][key].nextReview <= v[j][key].nextReview
                    /\ Queued(sessionPlan) \cap NewCards(sessionPlan) = {}
               ELSE /\ due \subseteq Queued(sessionPlan)
                    /\ Cardinality({p \in DOMAIN q : q[p] \in NewCards(sessionPlan)})
                          <= sessionPlan.limit - Cardinality(due)


(***************************************************************************)
(* C28: in a review session with N queued cards, with sequential calls and *)
(* persistence succeeding, the cursor equals the number of recorded        *)
(* outcomes and is at most N; processAnswer returns finished == true       *)
(* exactly on the N-th answer; once the cursor is N, getCurrentCard yields *)
(* no card and a further processAnswer returns nothing and changes neither *)
(* cards, outcomes nor cursor.                                             *)
(***************************************************************************)
QueueLength == Len(currentSession.cards)

ProcessAnswerCall == vocabCalls' # vocabCalls /\ lastAnswer'.call = vocabCalls'

CursorCountsOutcomes ==
    [][ ~storageFull =>
          /\ currentSession'.currentIndex = Len(currentSession'.results)
          /\ currentSession'.currentIndex <= Len(currentSession'.cards)
          /\ (ProcessAnswerCall /\ currentSession.currentIndex < QueueLength) =>
                /\ currentSession'.currentIndex = currentSession.currentIndex + 1
                /\ lastAnswer'.finished <=> currentSession'.currentIndex = QueueLength
          /\ (ProcessAnswerCall /\ currentSession.currentIndex = QueueLength) =>
                /\ lastAnswer'.outcome = "null"
                /\ cards' = cards
                /\ storedVocabulary' = storedVocabulary
                /\ currentSession' = currentSession ]_vars

AnswerAfterSessionFinished ==
    /\ ~storageFull
    /\ Len(currentSession.cards) = 2
    /\ currentSession.currentIndex = 2
    /\ Len(currentSession.results) = 2
    /\ lastAnswer.call = vocabCalls
    /\ lastAnswer.outcome = "null"

(***************************************************************************)
(* C29: processAnswer in a session of mode m applies the scheduler only to *)
(* the mode-specific record of the current card (receptive for receptive   *)
(* mode, productive for every other mode): the card's other-mode record    *)
(* and every other card's records are left unchanged.                      *)
(***************************************************************************)
OnlyModeRecordOfCurrentCardChanges ==
    [][ (ProcessAnswerCall /\ currentSession.currentIndex < QueueLength) =>
          LET word == currentSession.cards[currentSession.currentIndex + 1]
              receptiveMode == currentSession.mode = "receptive"
          IN  /\ \A w \in Words \ {word} : cards'[w] = cards[w]
              /\ IF receptiveMode
                 THEN /\ cards'[word].productive = cards[word].productive
                      /\ cards'[word].receptive
                            = processAnswer(cards[word].receptive, lastAnswer'.quality)
                 ELSE /\ cards'[word].receptive = cards[word].receptive
                      /\ cards'[word].productive
                            = processAnswer(cards[word].productive, lastAnswer'.quality) ]_vars

DefinitionModeAdvancedProductive ==
    /\ currentSession.mode = "definition"
    /\ lastAnswer.call = vocabCalls
    /\ lastAnswer.word = "apple"
    /\ cards["apple"].productive # createCard
    /\ cards["apple"].receptive = createCard
    /\ cards["book"] = NewVocabularyCard


(***************************************************************************)
(* C30: every completePhase('practice', {score}) call on a current topic   *)
(* increases practice.attempts by exactly 1 whether the score passes or    *)
(* not, and afterwards practice.completed is true exactly when the score   *)
(* of that submission is >= 0.7; a missing score counts as 0 and is not    *)
(* passed.                                                                 *)
(***************************************************************************)
PracticeSubmission(score) ==
    /\ currentTopic # Null
    /\ lastOp'.op = "completePhase"
    /\ CompletePhaseWith("practice", [NoData EXCEPT !.score = score])

PracticeSubmissionCounted ==
    [][ \A score \in Scores :
          PracticeSubmission(score) =>
            LET before == progress[currentTopic].phases.practice
                after == progress'[currentTopic].phases.practice
            IN  /\ after.attempts = before.attempts + 1
                /\ after.completed <=> (score # Undefined /\ score >= 70)
                /\ after.score = IF score = Undefined THEN 0 ELSE score ]_vars

FailedSecondSubmission ==
    /\ currentTopic # Null
    /\ lastOp.op = "completePhase"
    /\ progress[currentTopic].phases.practice.attempts = 2
    /\ progress[currentTopic].phases.practice.score = 69
    /\ ~progress[currentTopic].phases.practice.completed


(***************************************************************************)
(* C31: for every topic progress record, determineCurrentPhase returns the *)
(* first phase in the order discover, understand, notice, practice,        *)
(* produce, input_flood that is not satisfied (flags true;                 *)
(* practice.completed; produce.completed; input_flood >= 5), and returns   *)
(* review exactly when all six are satisfied.                              *)
(***************************************************************************)
UnsatisfiedPhases(p) == {i \in 1..6 : ~Satisfied(p, i)}

DerivedPhaseIsFirstUnsatisfied ==
    \A t \in DOMAIN progress :
        LET p == progress[t]
            derived == determineCurrentPhase(p)
        IN  /\ derived = "review" <=> UnsatisfiedPhases(p) = {}
            /\ UnsatisfiedPhases(p) # {} =>
                 /\ derived \in {PHASE_ORDER[i] : i \in UnsatisfiedPhases(p)}
                 /\ \A i \in UnsatisfiedPhases(p) :
                       \A j \in 1..6 : PHASE_ORDER[j] = derived => j <= i

LaterPhasesDoneBeforeNotice ==
    \E t \in DOMAIN progress :
        /\ progress[t].phases.discover
        /\ progress[t].phases.understand
        /\ ~progress[t].phases.notice
        /\ progress[t].phases.practice.completed
        /\ progress[t].phases.input_flood = 5
        /\ lastOp.derived = "notice"


(***************************************************************************)
(* C32: when getNextQuestion serves a question, it belongs to the section  *)
(* sections[questionCount mod 4] and its level is currentLevel if that     *)
(* bank has an unused question for the section; otherwise it is the        *)
(* nearest level that has one, searched in the order +1, -1, +2, -2 steps  *)
(* from currentLevel, and never a level more than 2 steps away.            *)
(***************************************************************************)
ServeStep ==
    /\ testSession.started
    /\ ptCalls' # ptCalls
    /\ lastResult' = Returned("getNextQuestion", "question")

\* Steps from currentLevel to a level, and the place of that many steps in
\* the search order 0, +1, -1, +2, -2.
StepsFromCurrent(level) == LevelIndex(level) - LevelIndex(testSession.currentLevel)
SearchPlace(steps) ==
    CASE steps = 0 -> 0
      [] steps = 1 -> 1
      [] steps = -1 -> 2
      [] steps = 2 -> 3
      [] steps = -2 -> 4
      [] OTHER -> 5

HasUnusedQuestion(level, section) ==
    /\ level \in DOMAIN questionBanks
    /\ \E id \in 1..questionBanks[level][section] :
          <<level, section, id>> \notin testSession.usedQuestionIds

ServedQuestionIsNearestInSection ==
    [][ ServeStep =>
          LET q == testSession'.questions[Len(testSession'.questions)]
              section == sections[(testSession.questionCount % 4) + 1]
          IN  /\ Len(testSession'.questions) = Len(testSession.questions) + 1
              /\ q.section = section
              /\ HasUnusedQuestion(q.level, section)
              /\ SearchPlace(StepsFromCurrent(q.level)) <= 4
              /\ \A level \in LevelNames :
                    HasUnusedQuestion(level, section) =>
                        SearchPlace(StepsFromCurrent(q.level))
                            <= SearchPlace(StepsFromCurrent(level)) ]_vars

QuestionServedTwoLevelsBelow ==
    /\ testSession.started
    /\ lastResult = Returned("getNextQuestion", "question")
    /\ LET q == testSession.questions[Len(testSession.questions)]
       IN  /\ StepsFromCurrent(q.level) = -2
           /\ LevelIndex(testSession.currentLevel) < Len(LEVELS)


(***************************************************************************)
(* C33: currentLevel does not thrash: after a submitAnswer call changes    *)
(* currentLevel, no change of currentLevel occurs on the next submitAnswer *)
(* call, and at least 3 further answers are submitted before currentLevel  *)
(* changes again.                                                          *)
(***************************************************************************)
LevelChangesAgain ==
    /\ SubmitStep
    /\ levelChangedAt > 0
    /\ testSession'.currentLevel # testSession.currentLevel

LevelDoesNotThrash ==
    [][ LevelChangesAgain => Len(testSession'.answers) - levelChangedAt >= 3 ]_vars


(***************************************************************************)
(* C34: completePhase called when no topic is current returns              *)
(* {success: false} and changes no progress record, current phase or       *)
(* persisted state.                                                        *)
(***************************************************************************)
CompletePhaseWithoutTopic ==
    /\ currentTopic = Null
    /\ \E phase \in PhaseArgs : \E data \in DataArgs(phase) : CompletePhaseWith(phase, data)

CompletePhaseWithoutTopicDoesNothing ==
    [][ CompletePhaseWithoutTopic =>
          /\ lastOp'.success = "false"
          /\ progress' = progress
          /\ currentPhase' = currentPhase
          /\ storedGrammar' = storedGrammar
          /\ currentTopic' = Null ]_vars

PhaseCompletedWithoutTopicOnStoredProgress ==
    /\ currentTopic = Null
    /\ lastOp.op = "completePhase"
    /\ currentPhase = "practice"
    /\ progress # EmptyProgress
    /\ \E t \in DOMAIN progress : progress[t].phases.discover


(***************************************************************************)
(* C35: the queue returned by startSession never contains the same         *)
(* vocabulary card more than once, for every card set and limit (in        *)
(* particular when cards in status new are also due because their          *)
(* nextReview is their creation time).                                     *)
(***************************************************************************)
NoCardQueuedTwice ==
    sessionPlan.op = "startSession" =>
        \A p, q \in DOMAIN sessionPlan.cards :
            sessionPlan.cards[p] = sessionPlan.cards[q] => p = q


(***************************************************************************)
(* C36: a card's status is new only while it has never been answered:      *)
(* after any processAnswer call (any quality) on a card in status new, the *)
(* card's status is learning or review, so an answered card is no longer   *)
(* selected by getNewCards (which filters on status new).                  *)
(***************************************************************************)
AnsweredCardLeavesNew ==
    [][ (card.status = "new" /\ lastCall'.called) =>
            card'.status \in {"learning", "review"} ]_vars


(***************************************************************************)
(* C37: within one review session each queue position is graded exactly    *)
(* once even when processAnswer calls overlap (a second call issued while  *)
(* the first is suspended in the asynchronous save): no card has the       *)
(* scheduler applied twice for one queue position and no queue position is *)
(* skipped without being graded.                                           *)
(***************************************************************************)
EachPositionGradedOnce ==
    \A position \in DOMAIN gradings :
        /\ gradings[position] <= 1
        /\ position <= currentSession.currentIndex => gradings[position] >= 1


(***************************************************************************)
(* C38: in a placement session every served question is scored at most     *)
(* once: in every reachable state the number of recorded answers, and the  *)
(* sum of the section totals, is at most questionCount, including when     *)
(* submitAnswer is invoked again before the next question is served.       *)
(***************************************************************************)
RECURSIVE SectionTotalsFrom(_)
SectionTotalsFrom(i) ==
    IF i > Len(sections)
    THEN 0
    ELSE testSession.sectionScores[sections[i]].total + SectionTotalsFrom(i + 1)

ServedQuestionScoredAtMostOnce ==
    testSession.started =>
        /\ Len(testSession.answers) <= testSession.questionCount
        /\ SectionTotalsFrom(1) <= testSession.questionCount


(***************************************************************************)
(* C39: from every card state reachable by processAnswer, answering GOOD   *)
(* on every subsequent review eventually brings the card to status learned *)
(* (interval >= 21): no reachable card is stuck forever below the learned  *)
(* threshold under an all-GOOD answer sequence.                            *)
(***************************************************************************)
GoodRunReachesLearned ==
    goodRun ~> (card.status = "learned" /\ card.interval >= 21)


(***************************************************************************)
(* C40: every card that startSession(mode) puts in the queue is either due *)
(* in that mode (mode-specific nextReview <= now) or has status new in     *)
(* that mode's own scheduling record; in a productive-mode session no card *)
(* is queued whose productive record is already scheduled for a future     *)
(* review.                                                                 *)
(***************************************************************************)
QueuedCardsDueOrNewInMode ==
    sessionPlan.op = "startSession" =>
        \A i \in Queued(sessionPlan) :
            LET record == sessionPlan.vocabulary[i]
                              [IF sessionPlan.mode = "receptive"
                               THEN "receptive" ELSE "productive"]
            IN  record.nextReview <= 0 \/ record.status = "new"

====
